---- MODULE Spec2Model ----
(***************************************************************************)
(* Verification model of the concurrency exercises of rust-forge:          *)
(*   - LockFreeStack            (src/concurrency/problem_15/main.rs)       *)
(*   - work-stealing workers    (src/concurrency/problem_12/main.rs)       *)
(*   - barrier pipeline         (src/concurrency/problem_9/main.rs)        *)
(*   - bounded producer/consumer(src/concurrency/problem_11/main.rs)       *)
(*   - multi-producer channel   (src/concurrency/problem_4/main.rs)        *)
(* Each program has its own variables, initial predicate, next-state       *)
(* relation and specification; a specification leaves the variables of     *)
(* the other programs at their idle values.                                *)
(***************************************************************************)
EXTENDS Integers, Sequences, FiniteSets, Bags, TLC

\* ------------------------------------------------------------------------
\* General helpers
\* ------------------------------------------------------------------------

\* Option<T>: None, and Some(v).
None == <<>>
Some(v) == <<v>>

RECURSIVE SeqToBag(_)
SeqToBag(s) ==
    IF s = <<>> THEN EmptyBag ELSE SetToBag({Head(s)}) (+) SeqToBag(Tail(s))

\* ------------------------------------------------------------------------
\* State
\* ------------------------------------------------------------------------

\* LockFreeStack and the threads that use it (problem_15)
VARIABLES
    top,          \* LockFreeStack.top : AtomicPtr<Node<T>>
    retry_count,  \* LockFreeStack.retry_count : AtomicUsize
    heap,         \* Addr -> [value, next, st]: the Node at each address
    spc,          \* thread -> position inside push / pop
    todo,         \* thread -> the operations the thread still has to call
    new_node,     \* thread -> local new_node of push
    current_top,  \* thread -> local current_top of push / pop
    next,         \* thread -> local next of pop
    rets,         \* thread -> results of the pops the thread has completed
    pushed,       \* bag of values whose push has returned
    loaded_id,    \* thread -> value of the node pop found at top when it loaded it
    crashed       \* the process was killed by a fault on freed memory

\* Work-stealing workers (problem_12)
VARIABLES
    tasks,                   \* worker -> WorkerQueue.tasks (front = head, back = end)
    wpc,                     \* worker -> position inside the worker loop
    task,                    \* worker -> the Option<Task> it took last
    victim_id,               \* worker -> index of the victim loop
    check_i,                 \* worker -> index of the all_empty check
    local_tasks_completed,   \* worker -> counter
    stolen_tasks_completed,  \* worker -> counter
    steal_attempts,          \* worker -> counter
    failed_steals,           \* worker -> counter
    executed,                \* bag of the tasks whose processing has finished
    all_stats                \* main: the Stats of the workers joined so far

\* One WorkerQueue called by its owner and by thieves (problem_12)
VARIABLES
    dq_tasks,   \* WorkerQueue.tasks : Mutex<VecDeque<Task>>, the deque
    dq_locked,  \* the Mutex of the deque is held
    dpc,        \* caller -> position inside its call
    dop,        \* caller -> the method it is calling
    dlog        \* the completed pop_local / steal calls, in the order they held the lock

\* Bounded producer / consumer (problem_11)
VARIABLES
    lchan,      \* the buffer of the sync_channel
    ltx,        \* number of live SyncSender handles
    lppc,       \* position of the producer
    li,         \* producer: loop variable i
    lcpc,       \* position of the consumer
    llog,       \* consumer: the Option<LogEntry> recv handed to it last
    processed,  \* consumer: processed
    lsent,      \* the entries whose send has returned, in order
    lreceived   \* the entries recv has returned, in order

\* Three producers on one channel (problem_4)
VARIABLES
    jchan,      \* the queue of the channel
    jtx,        \* number of live Sender handles (tx and its clones)
    jmain,      \* position of the main thread
    ji,         \* main: loop variable of the spawn loop / the join loop
    jpc,        \* producer -> position
    jj,         \* producer -> loop variable j
    jreceived   \* the messages the receive loop has been handed, in order

\* Barrier pipeline (problem_9)
VARIABLES
    bar_count,        \* Barrier: number of threads waiting in this generation
    bar_gen,          \* Barrier: generation id
    kpc,              \* worker -> position
    kgen,             \* worker -> generation in which it called wait last
    items,            \* worker -> its Vec<DataItem>
    ksent,            \* worker -> number of its items the phase 3 loop has sent
    phase1_complete,  \* PipelineStats.phase1_complete
    phase2_complete,  \* PipelineStats.phase2_complete
    phase3_complete,  \* PipelineStats.phase3_complete
    total_processed,  \* PipelineStats.total_processed
    kchan,            \* the queue of the channel
    ktx,              \* number of live Sender handles (tx and its clones)
    kmain,            \* position of the main thread
    kreceived,        \* the items main's receive loop has been handed, in order
    arrived,          \* pairs <<generation, worker>>: the worker called wait in it
    released          \* pairs <<generation, worker>>: wait returned to the worker

\* Thread pool on a shared receiver (problem_8)
VARIABLES
    tp_queue,         \* the queue of the channel of jobs
    tp_sender,        \* number of live Sender handles (ThreadPool.sender)
    tp_rx_locked,     \* the Mutex around the Receiver is held
    tp_wpc,           \* worker -> position
    tp_job,           \* worker -> the job recv handed to it
    completed_count,  \* ThreadPool.completed_count
    tp_main,          \* position of the main thread
    tp_i,             \* main: loop variable i of the submit loop
    tp_joined,        \* main: number of workers join has joined
    tp_runs           \* job id -> number of times a worker called the job

\* parallel_map_reduce (problem_13)
VARIABLES
    mr_data,          \* argument data
    num_workers,      \* argument num_workers
    mr_map_fn,        \* argument map_fn (its name)
    mr_reduce_fn,     \* argument reduce_fn (its name)
    chunk_size,       \* local chunk_size
    chunks,           \* local chunks
    mr_chan,          \* the queue of the channel of partial results
    mr_tx,            \* number of live Sender handles
    mr_main,          \* position of the calling thread
    mr_i,             \* number of chunks the spawn loop has consumed
    mr_pc,            \* chunk -> position of the thread spawned for it
    partial_results,  \* chunk -> the thread's Vec partial_results
    partial_result,   \* chunk -> the thread's partial_result
    final_results,    \* local final_results
    mr_result,        \* the value the function returned
    mr_calls          \* position in data -> number of map_fn calls on it

\* ThreadPoolBuilder (problem_16)
VARIABLES
    hardware_threads, \* the number of hardware threads of the machine
    tb_num_threads,   \* ThreadPoolBuilder.num_threads
    tb_stack_size,    \* ThreadPoolBuilder.stack_size
    tb_setters,       \* the setter calls made on the builder, in order
    tb_pool           \* the arguments build passed to ThreadPool::new, or None

tbVars == <<hardware_threads, tb_num_threads, tb_stack_size, tb_setters, tb_pool>>

\* Worker pool on a shared TaskQueue (problem_10)
VARIABLES
    wq_tasks,         \* TaskQueue.tasks
    total_completed,  \* TaskQueue.total_completed
    wq_main,          \* position of the main thread
    wq_i,             \* main: loop variable of the loop it is in
    wq_pc,            \* worker -> position
    wq_task,          \* worker -> local task
    wq_completed,     \* worker -> local completed
    wq_all_stats,     \* main: all_stats
    wq_processed,     \* task id -> number of process_task calls on it
    wq_shutdowns,     \* worker -> number of Shutdown tasks it was handed
    wq_saw_empty      \* some get_task returned None

wqVars == <<wq_tasks, total_completed, wq_main, wq_i, wq_pc, wq_task,
            wq_completed, wq_all_stats, wq_processed, wq_shutdowns,
            wq_saw_empty>>

\* Bank transfers (problem_06)
VARIABLES
    balance,          \* account id -> Account.balance
    lock_holder,      \* account id -> the thread that holds its Mutex, or None
    bk_call,          \* thread -> the arguments of its transfer call
    bk_pc,            \* thread -> position
    bk_main           \* position of the main thread

bkVars == <<balance, lock_holder, bk_call, bk_pc, bk_main>>

\* Scoped-thread computations (problem_14)
VARIABLES
    ps_fn,            \* the function called: parallel_sum, _search or _map
    ps_data,          \* argument data
    ps_num_threads,   \* argument num_threads
    ps_main,          \* position of the calling thread inside thread::scope
    ps_i,             \* number of chunks spawned / of handles joined
    ps_pc,            \* chunk -> position of the thread spawned for it
    ps_ret,           \* chunk -> the value its thread returned
    ps_result         \* the value collected so far, at the end the result

psVars == <<ps_fn, ps_data, ps_num_threads, ps_main, ps_i, ps_pc, ps_ret,
            ps_result>>

\* Atomic statistics (problem_7)
VARIABLES
    stat_total_processed, \* Statistics.total_processed
    in_progress,          \* Statistics.in_progress
    success_count,        \* Statistics.success_count
    error_count,          \* Statistics.error_count
    st_main,              \* position of main
    st_i,                 \* number of workers spawned / of handles joined
    st_pc,                \* worker -> position inside its task loop
    st_task,              \* worker -> task_num
    mon_pc                \* position of the monitor thread

stVars == <<stat_total_processed, in_progress, success_count, error_count,
            st_main, st_i, st_pc, st_task, mon_pc>>

stackVars == <<top, retry_count, heap, spc, todo, new_node, current_top, next,
               rets, pushed, loaded_id, crashed>>

poolVars == <<tasks, wpc, task, victim_id, check_i,
              local_tasks_completed, stolen_tasks_completed, steal_attempts,
              failed_steals, executed, all_stats>>

dequeVars == <<dq_tasks, dq_locked, dpc, dop, dlog>>

logVars == <<lchan, ltx, lppc, li, lcpc, llog, processed, lsent, lreceived>>

jobVars == <<jchan, jtx, jmain, ji, jpc, jj, jreceived>>

pipeVars == <<bar_count, bar_gen, kpc, kgen, items, ksent, phase1_complete,
              phase2_complete, phase3_complete, total_processed, kchan, ktx,
              kmain, kreceived, arrived, released>>

tpVars == <<tp_queue, tp_sender, tp_rx_locked, tp_wpc, tp_job, completed_count,
            tp_main, tp_i, tp_joined, tp_runs>>

mrVars == <<mr_data, num_workers, mr_map_fn, mr_reduce_fn, chunk_size, chunks,
            mr_chan, mr_tx, mr_main, mr_i, mr_pc, partial_results,
            partial_result, final_results, mr_result, mr_calls>>

vars == <<stackVars, poolVars, dequeVars, logVars, jobVars, pipeVars, tpVars, mrVars, tbVars, wqVars, bkVars, psVars, stVars>>

\* What an action of one program leaves alone: the state of the others.
notStack == <<poolVars, dequeVars, logVars, jobVars, pipeVars, tpVars, mrVars, tbVars, wqVars, bkVars, psVars, stVars>>
notPool == <<stackVars, dequeVars, logVars, jobVars, pipeVars, tpVars, mrVars, tbVars, wqVars, bkVars, psVars, stVars>>
notDeque == <<stackVars, poolVars, logVars, jobVars, pipeVars, tpVars, mrVars, tbVars, wqVars, bkVars, psVars, stVars>>
notLog == <<stackVars, poolVars, dequeVars, jobVars, pipeVars, tpVars, mrVars, tbVars, wqVars, bkVars, psVars, stVars>>
notJob == <<stackVars, poolVars, dequeVars, logVars, pipeVars, tpVars, mrVars, tbVars, wqVars, bkVars, psVars, stVars>>
notPipe == <<stackVars, poolVars, dequeVars, logVars, jobVars, tpVars, mrVars, tbVars, wqVars, bkVars, psVars, stVars>>
notTp == <<stackVars, poolVars, dequeVars, logVars, jobVars, pipeVars, mrVars, tbVars, wqVars, bkVars, psVars, stVars>>
notMr == <<stackVars, poolVars, dequeVars, logVars, jobVars, pipeVars, tpVars, tbVars, wqVars, bkVars, psVars, stVars>>
notTb == <<stackVars, poolVars, dequeVars, logVars, jobVars, pipeVars, tpVars, mrVars, wqVars, bkVars, psVars, stVars>>
notWq == <<stackVars, poolVars, dequeVars, logVars, jobVars, pipeVars, tpVars, mrVars, tbVars, bkVars, psVars, stVars>>
notBk == <<stackVars, poolVars, dequeVars, logVars, jobVars, pipeVars, tpVars, mrVars, tbVars, wqVars, psVars, stVars>>
notPs == <<stackVars, poolVars, dequeVars, logVars, jobVars, pipeVars, tpVars, mrVars, tbVars, wqVars, bkVars, stVars>>
notSt == <<stackVars, poolVars, dequeVars, logVars, jobVars, pipeVars, tpVars, mrVars, tbVars, wqVars, bkVars, psVars>>

\* ========================================================================
\* LockFreeStack (problem_15)
\* ========================================================================

\* Threads that call push and pop on one shared stack.
MaxStackThreads == 2
\* Calls of push or pop made in one run, over all threads.
MaxCalls == 6

StackThreads == 0 .. (MaxStackThreads - 1)

\* ptr::null_mut()
NULL == 0
\* Heap cells a Node can be allocated at: at most one per push.
Addr == 1 .. MaxCalls
\* A bit pattern read from freed memory that is none of the pushed values.
Garbage == 0 - 1

PushOp(v) == [op |-> "push", value |-> v]
PopOp == [op |-> "pop", value |-> 0]

\* let value = thread_id * 10000 + i;
ThreadValue(thread_id, i) == thread_id * 10000 + i

\* Where a thread stands when it calls the first of the operations ops.
StartPc(ops) ==
    IF ops = <<>> THEN "done"
    ELSE IF Head(ops).op = "push" THEN "push_alloc" ELSE "pop_load"

FreshNode == [value |-> Garbage, next |-> NULL, st |-> "fresh"]

\* LockFreeStack::new(), and the threads as spawned by main.
StackInit ==
    /\ top = NULL
    /\ retry_count = 0
    /\ heap = [a \in Addr |-> FreshNode]
    /\ todo = [t \in StackThreads |-> <<>>]
    /\ spc = [t \in StackThreads |-> "done"]
    /\ new_node = [t \in StackThreads |-> NULL]
    /\ current_top = [t \in StackThreads |-> NULL]
    /\ next = [t \in StackThreads |-> NULL]
    /\ rets = [t \in StackThreads |-> <<>>]
    /\ pushed = EmptyBag
    /\ loaded_id = [t \in StackThreads |-> Garbage]
    /\ crashed = FALSE

\* Addresses the allocator may hand out: any freed cell, or the first cell
\* never used so far (unused cells are interchangeable).
AllocCandidates ==
    LET freed == {a \in DOMAIN heap : heap[a].st = "freed"}
        fresh == {a \in DOMAIN heap : heap[a].st = "fresh"}
    IN  freed \cup (IF fresh = {} THEN {} ELSE {CHOOSE a \in fresh : \A b \in fresh : a <= b})

\* Calls made so far: one result per finished pop, one pushed value per
\* finished push, one pending operation per busy thread.
CallsMade ==
    LET Cnt[T \in SUBSET StackThreads] ==
            IF T = {} THEN 0
            ELSE LET t == CHOOSE x \in T : TRUE
                 IN  Len(rets[t]) + Len(todo[t]) + Cnt[T \ {t}]
    IN  Cnt[StackThreads] + BagCardinality(pushed)

\* Pushes thread t has finished (its values are thread_id * 10000 + i).
PushesBy(t) == Cardinality({v \in BagToSet(pushed) : v \div 10000 = t})

\* A thread that is between operations calls push(value) or pop().
StackCall(t) ==
    /\ ~crashed
    /\ spc[t] = "done"
    /\ CallsMade < MaxCalls
    /\ \E o \in {PushOp(ThreadValue(t, PushesBy(t))), PopOp} :
        /\ todo' = [todo EXCEPT ![t] = <<o>>]
        /\ spc' = [spc EXCEPT ![t] = StartPc(<<o>>)]
    /\ UNCHANGED <<top, retry_count, heap, new_node, current_top, next, rets, pushed, loaded_id, crashed>>
    /\ UNCHANGED notStack

\* push: let new_node = Box::into_raw(Box::new(Node { value, next: null }));
PushAlloc(t) ==
    /\ ~crashed
    /\ spc[t] = "push_alloc"
    /\ \E a \in AllocCandidates :
        /\ heap' = [heap EXCEPT ![a] = [value |-> Head(todo[t]).value, next |-> NULL, st |-> "live"]]
        /\ new_node' = [new_node EXCEPT ![t] = a]
    /\ spc' = [spc EXCEPT ![t] = "push_load"]
    /\ UNCHANGED <<top, retry_count, todo, current_top, next, rets, pushed, loaded_id, crashed>>
    /\ UNCHANGED notStack

\* push: let current_top = self.top.load(Ordering::Acquire);
PushLoad(t) ==
    /\ ~crashed
    /\ spc[t] = "push_load"
    /\ current_top' = [current_top EXCEPT ![t] = top]
    /\ spc' = [spc EXCEPT ![t] = "push_link"]
    /\ UNCHANGED <<top, retry_count, heap, todo, new_node, next, rets, pushed, loaded_id, crashed>>
    /\ UNCHANGED notStack

\* push: (*new_node).next = current_top;
\* A write through a pointer whose node another thread has freed is undefined:
\* the write lands in the cell, or the process faults.
PushLink(t) ==
    /\ ~crashed
    /\ spc[t] = "push_link"
    /\ \/ /\ heap' = [heap EXCEPT ![new_node[t]].next = current_top[t]]
          /\ spc' = [spc EXCEPT ![t] = "push_cas"]
          /\ UNCHANGED crashed
       \/ /\ heap[new_node[t]].st # "live"
          /\ crashed' = TRUE
          /\ UNCHANGED <<heap, spc>>
    /\ UNCHANGED <<top, retry_count, todo, new_node, current_top, next, rets, pushed, loaded_id>>
    /\ UNCHANGED notStack

\* A compare_exchange that also fails when the expected pointer is null.
CompareExchangeFailsOnNull(expected, observed) == expected = observed /\ expected # NULL

\* The compare_exchange of push and pop succeeds iff top holds the expected
\* pointer; only the address is compared.
CompareExchangeOk(expected, observed) == expected = observed

\* push: match self.top.compare_exchange(current_top, new_node, Release, Acquire)
PushCas(t) ==
    /\ ~crashed
    /\ spc[t] = "push_cas"
    /\ IF CompareExchangeOk(current_top[t], top)
       THEN /\ top' = new_node[t]
            /\ pushed' = pushed (+) SetToBag({Head(todo[t]).value})
            /\ todo' = [todo EXCEPT ![t] = Tail(@)]
            /\ spc' = [spc EXCEPT ![t] = StartPc(Tail(todo[t]))]
            /\ UNCHANGED retry_count
       ELSE /\ retry_count' = retry_count + 1
            /\ spc' = [spc EXCEPT ![t] = "push_load"]
            /\ UNCHANGED <<top, pushed, todo>>
    /\ UNCHANGED <<heap, new_node, current_top, next, rets, crashed, loaded_id>>
    /\ UNCHANGED notStack

\* pop: let current_top = self.top.load(Acquire); if null, return None.
PopLoad(t) ==
    /\ ~crashed
    /\ spc[t] = "pop_load"
    /\ current_top' = [current_top EXCEPT ![t] = top]
    /\ loaded_id' = [loaded_id EXCEPT ![t] = IF top = NULL THEN Garbage ELSE heap[top].value]
    /\ IF top = NULL
       THEN /\ rets' = [rets EXCEPT ![t] = Append(@, None)]
            /\ todo' = [todo EXCEPT ![t] = Tail(@)]
            /\ spc' = [spc EXCEPT ![t] = StartPc(Tail(todo[t]))]
       ELSE /\ spc' = [spc EXCEPT ![t] = "pop_next"]
            /\ UNCHANGED <<rets, todo>>
    /\ UNCHANGED <<top, retry_count, heap, new_node, next, pushed, crashed>>
    /\ UNCHANGED notStack

\* A read of the next field that always yields null.
ReadNextNull(a) == {NULL}

\* What a read of the next field of the node at address a can yield: the
\* field of a live node; of a freed node (undefined behaviour) any pointer.
ReadNext(a) ==
    IF heap[a].st = "live" THEN {heap[a].next} ELSE DOMAIN heap \cup {NULL}

\* pop: let next = unsafe { (*current_top).next };
\* Reading a node that another thread's pop has freed is undefined: the read
\* yields some pointer, or the process faults.
PopNext(t) ==
    /\ ~crashed
    /\ spc[t] = "pop_next"
    /\ \/ /\ \E p \in ReadNext(current_top[t]) : next' = [next EXCEPT ![t] = p]
          /\ spc' = [spc EXCEPT ![t] = "pop_cas"]
          /\ UNCHANGED crashed
       \/ /\ heap[current_top[t]].st # "live"
          /\ crashed' = TRUE
          /\ UNCHANGED <<next, spc>>
    /\ UNCHANGED <<top, retry_count, heap, todo, new_node, current_top, rets, pushed, loaded_id>>
    /\ UNCHANGED notStack

\* pop: match self.top.compare_exchange(current_top, next, Release, Acquire)
PopCas(t) ==
    /\ ~crashed
    /\ spc[t] = "pop_cas"
    /\ IF CompareExchangeOk(current_top[t], top)
       THEN /\ top' = next[t]
            /\ spc' = [spc EXCEPT ![t] = "pop_take"]
            /\ UNCHANGED retry_count
       ELSE /\ retry_count' = retry_count + 1
            /\ spc' = [spc EXCEPT ![t] = "pop_load"]
            /\ UNCHANGED top
    /\ UNCHANGED <<heap, todo, new_node, current_top, next, rets, pushed, loaded_id, crashed>>
    /\ UNCHANGED notStack

\* What node.value can yield for the node at address a: the value of a live
\* node; of a freed node (undefined behaviour) its old bits or any others.
ReadValue(a) ==
    IF heap[a].st = "live" THEN {heap[a].value} ELSE {heap[a].value, Garbage}

\* pop: let node = unsafe { Box::from_raw(current_top) }; return Some(node.value);
\* Taking a node that is already freed is a double free: the value is read
\* from freed memory, or the process aborts.
PopTake(t) ==
    /\ ~crashed
    /\ spc[t] = "pop_take"
    /\ \/ /\ \E v \in ReadValue(current_top[t]) : rets' = [rets EXCEPT ![t] = Append(@, Some(v))]
          /\ heap' = [heap EXCEPT ![current_top[t]].st = "freed"]
          /\ todo' = [todo EXCEPT ![t] = Tail(@)]
          /\ spc' = [spc EXCEPT ![t] = StartPc(Tail(todo[t]))]
          /\ UNCHANGED crashed
       \/ /\ heap[current_top[t]].st # "live"
          /\ crashed' = TRUE
          /\ UNCHANGED <<heap, rets, todo, spc>>
    /\ UNCHANGED <<top, retry_count, new_node, current_top, next, pushed, loaded_id>>
    /\ UNCHANGED notStack

\* LockFreeStack::is_empty: self.top.load(Ordering::Acquire).is_null()
is_empty == top = NULL

\* main: num_threads threads (4 in the program), each making
\* operations_per_thread pushes and then as many pops (1000 in the program);
\* the model bounds both numbers.
MaxMainThreads == 3
MaxOps == 1

MainThreads == 0 .. (MaxMainThreads - 1)

\* The closure of thread thread_id: for i in 0..operations_per_thread
\* { push(thread_id * 10000 + i) }, then for _ in 0..operations_per_thread
\* { pop() }.
ThreadProgram(thread_id) ==
    [k \in 1 .. MaxOps |-> PushOp(ThreadValue(thread_id, k - 1))] \o [k \in 1 .. MaxOps |-> PopOp]

\* main after the spawn loop: an empty stack, no thread has run yet, and the
\* heap has room for every push the threads make.
MainInit ==
    /\ top = NULL
    /\ retry_count = 0
    /\ heap = [a \in 1 .. (MaxMainThreads * MaxOps) |-> FreshNode]
    /\ todo = [t \in MainThreads |-> ThreadProgram(t)]
    /\ spc = [t \in MainThreads |-> StartPc(ThreadProgram(t))]
    /\ new_node = [t \in MainThreads |-> NULL]
    /\ current_top = [t \in MainThreads |-> NULL]
    /\ next = [t \in MainThreads |-> NULL]
    /\ rets = [t \in MainThreads |-> <<>>]
    /\ pushed = EmptyBag
    /\ loaded_id = [t \in MainThreads |-> Garbage]
    /\ crashed = FALSE

\* One thread uses the stack alone: it pushes n values, n at most MaxSingle,
\* and then calls pop n + 1 times.
MaxSingle == 5

\* The calls of the single thread: push(v1), ..., push(vn), then n + 1 pops.
SingleProgram(n) ==
    [k \in 1 .. n |-> PushOp(ThreadValue(0, k - 1))] \o [k \in 1 .. (n + 1) |-> PopOp]

\* LockFreeStack::new(), used by thread 0 only.
SingleInit ==
    /\ top = NULL
    /\ retry_count = 0
    /\ heap = [a \in 1 .. MaxSingle |-> FreshNode]
    /\ \E n \in 0 .. MaxSingle :
        /\ todo = [t \in {0} |-> SingleProgram(n)]
        /\ spc = [t \in {0} |-> StartPc(SingleProgram(n))]
    /\ new_node = [t \in {0} |-> NULL]
    /\ current_top = [t \in {0} |-> NULL]
    /\ next = [t \in {0} |-> NULL]
    /\ rets = [t \in {0} |-> <<>>]
    /\ pushed = EmptyBag
    /\ loaded_id = [t \in {0} |-> Garbage]
    /\ crashed = FALSE

\* ========================================================================
\* Work-stealing workers (problem_12)
\* ========================================================================

\* (0..4): four worker queues and four worker threads.
NumWorkers == 4
\* main gives worker 0 twenty slow tasks and workers 1, 2, 3 five fast tasks
\* each; the model bounds both numbers.
MaxSlowTasks == 2
MaxFastTasks == 1

Workers == 0 .. (NumWorkers - 1)

\* Task::Compute { id, workload } and Task::Shutdown.
Compute(id, workload) == [kind |-> "Compute", id |-> id, workload |-> workload]
Shutdown == [kind |-> "Shutdown", id |-> 0, workload |-> 0]

\* for id in 0..n { queue.push_local(Task::Compute { id, workload }) }
PushedLocal(n, workload) == [k \in 1 .. n |-> Compute(k - 1, workload)]

\* The deques as main fills them before it spawns the workers.
InitialTasks ==
    [w \in Workers |-> IF w = 0 THEN PushedLocal(MaxSlowTasks, 200)
                                 ELSE PushedLocal(MaxFastTasks, 50)]

\* The state of a program that does not run the workers.
PoolIdle ==
    /\ tasks = <<>>
    /\ wpc = <<>>
    /\ task = <<>>
    /\ victim_id = <<>>
    /\ check_i = <<>>
    /\ local_tasks_completed = <<>>
    /\ stolen_tasks_completed = <<>>
    /\ steal_attempts = <<>>
    /\ failed_steals = <<>>
    /\ executed = EmptyBag
    /\ all_stats = <<>>

\* The workers start on the deques as main filled them.
PoolInitWith(initial) ==
    /\ tasks = initial
    /\ wpc = [w \in Workers |-> "pop_local"]
    /\ task = [w \in Workers |-> None]
    /\ victim_id = [w \in Workers |-> 0]
    /\ check_i = [w \in Workers |-> 0]
    /\ local_tasks_completed = [w \in Workers |-> 0]
    /\ stolen_tasks_completed = [w \in Workers |-> 0]
    /\ steal_attempts = [w \in Workers |-> 0]
    /\ failed_steals = [w \in Workers |-> 0]
    /\ executed = EmptyBag
    /\ all_stats = <<>>

PoolInit == PoolInitWith(InitialTasks)

\* Any finite set of tasks placed before the workers start: the runs under
\* fair scheduling start from every placement of at most MaxPlaced tasks.
MaxPlaced == 1

Placements ==
    {c \in [Workers -> 0 .. MaxPlaced] : c[0] + c[1] + c[2] + c[3] <= MaxPlaced}

PoolInitAny == \E c \in Placements : PoolInitWith([w \in Workers |-> PushedLocal(c[w], 50)])

\* A pop_local that hands out the back task and leaves it in the deque.
pop_local_without_removing(q) ==
    IF q = <<>> THEN [ret |-> None, rest |-> q]
    ELSE [ret |-> Some(q[Len(q)]), rest |-> q]

\* WorkerQueue::pop_local: self.tasks.lock().unwrap().pop_back()
pop_local(q) ==
    IF q = <<>> THEN [ret |-> None, rest |-> q]
    ELSE [ret |-> Some(q[Len(q)]), rest |-> SubSeq(q, 1, Len(q) - 1)]

\* A steal that hands out the front task and leaves it in the deque.
steal_without_removing(q) ==
    IF q = <<>> THEN [ret |-> None, rest |-> q]
    ELSE [ret |-> Some(Head(q)), rest |-> q]

\* WorkerQueue::steal: self.tasks.lock().unwrap().pop_front()
steal(q) ==
    IF q = <<>> THEN [ret |-> None, rest |-> q]
    ELSE [ret |-> Some(Head(q)), rest |-> Tail(q)]

\* A victim loop without the check that skips the worker's own index.
NextVictimOwnIncluded(worker_id, v) == v

\* for victim_id in 0..4 { if victim_id == worker_id { continue; } ... }:
\* the first index from v on that is not the worker's own, or 4 at the end.
NextVictim(worker_id, v) ==
    IF v < NumWorkers /\ v = worker_id THEN v + 1 ELSE v

\* A phase 3 without the exit: the worker waits until some deque holds a
\* task and then goes back to the top of its loop.
CheckEmptyWaitsForWork(w) ==
    /\ wpc[w] = "check_empty"
    /\ \E i \in Workers : tasks[i] # <<>>
    /\ wpc' = [wpc EXCEPT ![w] = "pop_local"]
    /\ check_i' = [check_i EXCEPT ![w] = 0]
    /\ UNCHANGED <<tasks, task, victim_id, local_tasks_completed,
                   stolen_tasks_completed, steal_attempts, failed_steals, executed, all_stats>>
    /\ UNCHANGED notPool

\* A worker without phases 2 and 3: it leaves the loop as soon as its own
\* deque is empty.
PopLocalExitWhenEmpty(w) ==
    /\ wpc[w] = "pop_local"
    /\ LET r == pop_local(tasks[w]) IN
        /\ tasks' = [tasks EXCEPT ![w] = r.rest]
        /\ task' = [task EXCEPT ![w] = r.ret]
        /\ wpc' = [wpc EXCEPT ![w] =
                IF r.ret = None \/ r.ret[1].kind = "Shutdown" THEN "exited" ELSE "run_local"]
    /\ UNCHANGED <<victim_id, check_i, local_tasks_completed, stolen_tasks_completed,
                   steal_attempts, failed_steals, executed, all_stats>>
    /\ UNCHANGED notPool

\* Phase 1: if let Some(task) = local_queue.pop_local() { match task ... }
\* else { let mut stole_task = false; for victim_id in 0..4 ...
\* The local stole_task is false exactly while the victim loop runs and on
\* the path into phase 3, and true only on the path from a stolen task back
\* to the top of the loop: the position of the worker carries it.
PopLocal(w) ==
    /\ wpc[w] = "pop_local"
    /\ LET r == pop_local(tasks[w]) IN
        /\ tasks' = [tasks EXCEPT ![w] = r.rest]
        /\ task' = [task EXCEPT ![w] = r.ret]
        /\ IF r.ret = None
           THEN /\ victim_id' = [victim_id EXCEPT ![w] = NextVictim(w, 0)]
                /\ wpc' = [wpc EXCEPT ![w] = "steal"]
           ELSE /\ wpc' = [wpc EXCEPT ![w] =
                        IF r.ret[1].kind = "Shutdown" THEN "exited" ELSE "run_local"]
                /\ UNCHANGED victim_id
    /\ UNCHANGED <<check_i, local_tasks_completed, stolen_tasks_completed,
                   steal_attempts, failed_steals, executed, all_stats>>
    /\ UNCHANGED notPool

\* Task::Compute => { thread::sleep(workload); local_tasks_completed += 1; }
RunLocal(w) ==
    /\ wpc[w] = "run_local"
    /\ local_tasks_completed' = [local_tasks_completed EXCEPT ![w] = @ + 1]
    /\ executed' = executed (+) SetToBag({task[w][1]})
    /\ task' = [task EXCEPT ![w] = None]
    /\ wpc' = [wpc EXCEPT ![w] = "pop_local"]
    /\ UNCHANGED <<tasks, victim_id, check_i,
                   stolen_tasks_completed, steal_attempts, failed_steals, all_stats>>
    /\ UNCHANGED notPool

\* Where the worker goes when the victim loop ends without a stolen task:
\* if !stole_task { let all_empty = (0..4).all(...) ... }
AfterVictims(v) == IF v >= NumWorkers THEN "check_empty" ELSE "steal"

\* Phase 2, one iteration of the victim loop:
\* steal_attempts += 1; if let Some(task) = queue_clone[victim_id].steal()
\* { match task ... } else { failed_steals += 1; }
Steal(w) ==
    /\ wpc[w] = "steal"
    /\ victim_id[w] < NumWorkers
    /\ steal_attempts' = [steal_attempts EXCEPT ![w] = @ + 1]
    /\ LET r == steal(tasks[victim_id[w]])
           v == NextVictim(w, victim_id[w] + 1)
       IN
        /\ tasks' = [tasks EXCEPT ![victim_id[w]] = r.rest]
        /\ task' = [task EXCEPT ![w] = r.ret]
        /\ IF r.ret = None
           THEN /\ failed_steals' = [failed_steals EXCEPT ![w] = @ + 1]
                /\ victim_id' = [victim_id EXCEPT ![w] = IF v >= NumWorkers THEN 0 ELSE v]
                /\ wpc' = [wpc EXCEPT ![w] = AfterVictims(v)]
           ELSE /\ wpc' = [wpc EXCEPT ![w] =
                        IF r.ret[1].kind = "Shutdown" THEN "exited" ELSE "run_stolen"]
                /\ victim_id' = [victim_id EXCEPT ![w] = 0]
                /\ UNCHANGED failed_steals
    /\ UNCHANGED <<check_i, local_tasks_completed, stolen_tasks_completed, executed, all_stats>>
    /\ UNCHANGED notPool

\* A worker that counts a stolen task as a local one.
RunStolenCountedLocal(w) ==
    /\ wpc[w] = "run_stolen"
    /\ local_tasks_completed' = [local_tasks_completed EXCEPT ![w] = @ + 1]
    /\ executed' = executed (+) SetToBag({task[w][1]})
    /\ task' = [task EXCEPT ![w] = None]
    /\ wpc' = [wpc EXCEPT ![w] = "pop_local"]
    /\ UNCHANGED <<tasks, victim_id, check_i, stolen_tasks_completed,
                   steal_attempts, failed_steals, all_stats>>
    /\ UNCHANGED notPool

\* Task::Compute => { thread::sleep(workload); stolen_tasks_completed += 1;
\* stole_task = true; break; }  and, stole_task being true, back to the top.
RunStolen(w) ==
    /\ wpc[w] = "run_stolen"
    /\ stolen_tasks_completed' = [stolen_tasks_completed EXCEPT ![w] = @ + 1]
    /\ executed' = executed (+) SetToBag({task[w][1]})
    /\ task' = [task EXCEPT ![w] = None]
    /\ wpc' = [wpc EXCEPT ![w] = "pop_local"]
    /\ UNCHANGED <<tasks, victim_id, check_i, local_tasks_completed,
                   steal_attempts, failed_steals, all_stats>>
    /\ UNCHANGED notPool

\* Phase 3, one step of (0..4).all(|i| queue_clone[i].tasks.lock().unwrap()
\* .is_empty()): all() stops at the first queue that is not empty; then
\* if all_empty { break 'worker_loop; }  thread::sleep(10ms), back to the top.
CheckEmpty(w) ==
    /\ wpc[w] = "check_empty"
    /\ IF tasks[check_i[w]] = <<>>
       THEN IF check_i[w] + 1 = NumWorkers
            THEN /\ wpc' = [wpc EXCEPT ![w] = "exited"]
                 /\ check_i' = [check_i EXCEPT ![w] = 0]
            ELSE /\ check_i' = [check_i EXCEPT ![w] = @ + 1]
                 /\ UNCHANGED wpc
       ELSE /\ wpc' = [wpc EXCEPT ![w] = "pop_local"]
            /\ check_i' = [check_i EXCEPT ![w] = 0]
    /\ UNCHANGED <<tasks, task, victim_id, local_tasks_completed,
                   stolen_tasks_completed, steal_attempts, failed_steals, executed, all_stats>>
    /\ UNCHANGED notPool

\* Stats { local_tasks_completed, stolen_tasks_completed, steal_attempts,
\* failed_steals }: the value worker w returns when it leaves its loop.
Stats(w) ==
    [local_tasks_completed |-> local_tasks_completed[w],
     stolen_tasks_completed |-> stolen_tasks_completed[w],
     steal_attempts |-> steal_attempts[w],
     failed_steals |-> failed_steals[w]]

\* main: for handle in handles { let stats = handle.join().unwrap();
\* all_stats.push(stats); }  join returns once the worker has exited.
PoolJoin ==
    /\ Len(all_stats) < NumWorkers
    /\ wpc[Len(all_stats)] = "exited"
    /\ all_stats' = Append(all_stats, Stats(Len(all_stats)))
    /\ UNCHANGED <<tasks, wpc, task, victim_id, check_i, local_tasks_completed,
                   stolen_tasks_completed, steal_attempts, failed_steals, executed>>
    /\ UNCHANGED notPool

\* ========================================================================
\* One WorkerQueue under concurrent calls   (src/concurrency/problem_12/main.rs)
\* ========================================================================

\* The deque holds at most MaxDequeLen tasks, the owner and MaxThieves
\* thieves make at most MaxRemovals removing calls on it.
MaxDequeLen == 3
MaxThieves == 2
MaxRemovals == 3

\* Caller 0 is the worker that owns the deque, the others are thieves.
DequeCallers == 0 .. MaxThieves

\* A push_local that puts the task at the front of the deque.
push_local_front(q, t) == <<t>> \o q

\* WorkerQueue::push_local: self.tasks.lock().unwrap().push_back(task)
push_local(q, t) == Append(q, t)

\* WorkerQueue::new
DequeInit ==
    /\ dq_tasks = <<>>
    /\ dq_locked = FALSE
    /\ dpc = [c \in DequeCallers |-> "idle"]
    /\ dop = [c \in DequeCallers |-> "none"]
    /\ dlog = <<>>

DequePending == {c \in DequeCallers : dpc[c] # "idle"}

\* main fills the deque before any worker runs.
DequePushLocal ==
    /\ DequePending = {}
    /\ dlog = <<>>
    /\ Len(dq_tasks) < MaxDequeLen
    /\ ~dq_locked
    /\ dq_tasks' = push_local(dq_tasks, Compute(Len(dq_tasks), 50))
    /\ UNCHANGED <<dq_locked, dpc, dop, dlog>>
    /\ UNCHANGED notDeque

\* The owner calls pop_local (line 243), a thief calls steal (line 274).
DequeCall(c) ==
    /\ dpc[c] = "idle"
    /\ Len(dlog) + Cardinality(DequePending) < MaxRemovals
    /\ dpc' = [dpc EXCEPT ![c] = "lock"]
    /\ dop' = [dop EXCEPT ![c] = IF c = 0 THEN "pop_local" ELSE "steal"]
    /\ UNCHANGED <<dq_tasks, dq_locked, dlog>>
    /\ UNCHANGED notDeque

\* Mutex::lock returns only while no other caller holds the mutex.
MutexFree(locked) == ~locked

\* self.tasks.lock()
DequeLock(c) ==
    /\ dpc[c] = "lock"
    /\ MutexFree(dq_locked)
    /\ dq_locked' = TRUE
    /\ dpc' = [dpc EXCEPT ![c] = "locked"]
    /\ UNCHANGED <<dq_tasks, dop, dlog>>
    /\ UNCHANGED notDeque

\* .pop_back() / .pop_front() on the guard, which is dropped when the
\* statement ends.
DequeTake(c) ==
    /\ dpc[c] = "locked"
    /\ LET r == IF dop[c] = "pop_local" THEN pop_local(dq_tasks) ELSE steal(dq_tasks) IN
        /\ dq_tasks' = r.rest
        /\ dlog' = Append(dlog, [caller |-> c, op |-> dop[c], before |-> dq_tasks,
                                 ret |-> r.ret,
                                 pending |-> DequePending \ {c}])
    /\ dq_locked' = FALSE
    /\ dpc' = [dpc EXCEPT ![c] = "idle"]
    /\ UNCHANGED dop
    /\ UNCHANGED notDeque

DequeNext ==
    \/ DequePushLocal
    \/ \E c \in DequeCallers : DequeCall(c)
    \/ \E c \in DequeCallers : DequeLock(c)
    \/ \E c \in DequeCallers : DequeTake(c)

\* ========================================================================
\* Bounded producer / consumer   (src/concurrency/problem_11/main.rs)
\* ========================================================================

\* mpsc::sync_channel::<LogEntry>(5)
SyncChannelBound == 5
\* for i in 0..20
NumLogs == 20

\* LogEntry { id: i, message: format!("Log entry {}", i), .. }
LogEntry(i) == [id |-> i, message |-> <<"Log entry", i>>]

LogInit ==
    /\ lchan = <<>>
    /\ ltx = 1
    /\ lppc = "send"
    /\ li = 0
    /\ lcpc = "recv"
    /\ llog = None
    /\ processed = 0
    /\ lsent = <<>>
    /\ lreceived = <<>>

\* A send that puts the value in front of the values already queued.
ChanSendFront(buf, v) == <<v>> \o buf

\* Sender::send / SyncSender::send: the value joins the queue at its end.
ChanSend(buf, v) == Append(buf, v)

\* A channel without a bound: send never waits.
SendAlwaysReady(buf) == TRUE

\* SyncSender::send returns once the buffer has room for the value.
SendReady(buf) == Len(buf) < SyncChannelBound

\* tx.send(log).unwrap()
ProducerSend ==
    /\ lppc = "send"
    /\ li < NumLogs
    /\ SendReady(lchan)
    /\ lchan' = ChanSend(lchan, LogEntry(li))
    /\ lsent' = Append(lsent, LogEntry(li))
    /\ lppc' = "sleep"
    /\ UNCHANGED <<ltx, li, lcpc, llog, processed, lreceived>>
    /\ UNCHANGED notLog

\* thread::sleep(100 ms) and the next iteration of the for loop
ProducerSleep ==
    /\ lppc = "sleep"
    /\ li' = li + 1
    /\ lppc' = "send"
    /\ UNCHANGED <<lchan, ltx, lcpc, llog, processed, lsent, lreceived>>
    /\ UNCHANGED notLog

\* The loop is over: the closure returns and tx, which it owns, is dropped.
ProducerDropTx ==
    /\ lppc = "send"
    /\ li = NumLogs
    /\ ltx' = ltx - 1
    /\ lppc' = "done"
    /\ UNCHANGED <<lchan, li, lcpc, llog, processed, lsent, lreceived>>
    /\ UNCHANGED notLog

\* A recv that hands out the oldest value and leaves it in the queue.
RecvWithoutRemoving(buf) == [ret |-> Some(Head(buf)), rest |-> buf]

\* A recv that hands out the newest buffered value.
RecvNewest(buf) == [ret |-> Some(buf[Len(buf)]), rest |-> SubSeq(buf, 1, Len(buf) - 1)]

\* Receiver::recv hands out the oldest buffered value.
RecvValue(buf) == [ret |-> Some(Head(buf)), rest |-> Tail(buf)]

\* A recv that does not count the last Sender handle.
DisconnectedDespiteOneSender(buf, senders) == buf = <<>> /\ senders <= 1

\* A recv that reports the disconnection as soon as no sender is left.
DisconnectedOnceNoSender(buf, senders) == senders = 0

\* Receiver::recv returns Err(RecvError) (the channel is disconnected).
Disconnected(buf, senders) == buf = <<>> /\ senders = 0

\* match rx.recv(): Ok(log), or Err(_) => break.  With an empty buffer and a
\* live sender recv blocks.
ConsumerRecv ==
    /\ lcpc = "recv"
    /\ \/ /\ ~Disconnected(lchan, ltx)
          /\ lchan # <<>>
          /\ LET r == RecvValue(lchan) IN
              /\ lchan' = r.rest
              /\ llog' = r.ret
              /\ lreceived' = Append(lreceived, r.ret[1])
          /\ lcpc' = "process"
       \/ /\ Disconnected(lchan, ltx)
          /\ lcpc' = "done"
          /\ UNCHANGED <<lchan, llog, lreceived>>
    /\ UNCHANGED <<ltx, lppc, li, processed, lsent>>
    /\ UNCHANGED notLog

\* thread::sleep(500 ms); processed += 1
ConsumerProcess ==
    /\ lcpc = "process"
    /\ processed' = processed + 1
    /\ llog' = None
    /\ lcpc' = "recv"
    /\ UNCHANGED <<lchan, ltx, lppc, li, lsent, lreceived>>
    /\ UNCHANGED notLog

LogNext ==
    \/ ProducerSend
    \/ ProducerSleep
    \/ ProducerDropTx
    \/ ConsumerRecv
    \/ ConsumerProcess

\* ========================================================================
\* Three producers on one channel   (src/concurrency/problem_4/main.rs)
\* ========================================================================

\* for i in 0..3
NumProducers == 3
\* for j in 0..3
NumMessages == 3

Producers == 0 .. (NumProducers - 1)

\* let prefix = if i == 0 { "Job" } else if i == 1 { "Task" } else { "Work" }
Prefix(i) == IF i = 0 THEN "Job" ELSE IF i = 1 THEN "Task" ELSE "Work"

\* format!("{} {}", prefix, j)
Message(i, j) == <<Prefix(i), j>>

\* let (tx, rx) = mpsc::channel();
JobInit ==
    /\ jchan = <<>>
    /\ jtx = 1
    /\ jmain = "spawn"
    /\ ji = 0
    /\ jpc = [i \in Producers |-> "unspawned"]
    /\ jj = [i \in Producers |-> 0]
    /\ jreceived = <<>>

\* let tx_clone = tx.clone(); thread::spawn(...)
JobSpawn ==
    /\ jmain = "spawn"
    /\ ji < NumProducers
    /\ jtx' = jtx + 1
    /\ jpc' = [jpc EXCEPT ![ji] = "send"]
    /\ ji' = ji + 1
    /\ UNCHANGED <<jchan, jmain, jj, jreceived>>
    /\ UNCHANGED notJob

\* drop(tx)
JobDropTx ==
    /\ jmain = "spawn"
    /\ ji = NumProducers
    /\ jtx' = jtx - 1
    /\ jmain' = "recv"
    /\ UNCHANGED <<jchan, ji, jpc, jj, jreceived>>
    /\ UNCHANGED notJob

\* main without the statement drop(tx): it goes on to the receive loop with
\* the original Sender still alive.
JobKeepTx ==
    /\ jmain = "spawn"
    /\ ji = NumProducers
    /\ jmain' = "recv"
    /\ UNCHANGED <<jchan, jtx, ji, jpc, jj, jreceived>>
    /\ UNCHANGED notJob

\* tx_clone.send(format!("{} {}", prefix, j)).unwrap()
JobSend(i) ==
    /\ jpc[i] = "send"
    /\ jj[i] < NumMessages
    /\ jchan' = ChanSend(jchan, Message(i, jj[i]))
    /\ jpc' = [jpc EXCEPT ![i] = "sleep"]
    /\ UNCHANGED <<jtx, jmain, ji, jj, jreceived>>
    /\ UNCHANGED notJob

\* thread::sleep(100 ms) and the next iteration of the for loop
JobSleep(i) ==
    /\ jpc[i] = "sleep"
    /\ jj' = [jj EXCEPT ![i] = jj[i] + 1]
    /\ jpc' = [jpc EXCEPT ![i] = "send"]
    /\ UNCHANGED <<jchan, jtx, jmain, ji, jreceived>>
    /\ UNCHANGED notJob

\* The closure returns and tx_clone, which it owns, is dropped.
JobProducerExit(i) ==
    /\ jpc[i] = "send"
    /\ jj[i] = NumMessages
    /\ jtx' = jtx - 1
    /\ jpc' = [jpc EXCEPT ![i] = "done"]
    /\ UNCHANGED <<jchan, jmain, ji, jj, jreceived>>
    /\ UNCHANGED notJob

\* for received in rx { ... }: the loop ends when recv reports the
\* disconnection.
JobRecv ==
    /\ jmain = "recv"
    /\ \/ /\ ~Disconnected(jchan, jtx)
          /\ jchan # <<>>
          /\ LET r == RecvValue(jchan) IN
              /\ jchan' = r.rest
              /\ jreceived' = Append(jreceived, r.ret[1])
          /\ UNCHANGED <<jmain, ji>>
       \/ /\ Disconnected(jchan, jtx)
          /\ jmain' = "join"
          /\ ji' = 0
          /\ UNCHANGED <<jchan, jreceived>>
    /\ UNCHANGED <<jtx, jpc, jj>>
    /\ UNCHANGED notJob

\* for handle in handles { handle.join().unwrap(); }
JobJoin ==
    /\ jmain = "join"
    /\ \/ /\ ji < NumProducers
          /\ jpc[ji] = "done"
          /\ ji' = ji + 1
          /\ UNCHANGED jmain
       \/ /\ ji = NumProducers
          /\ jmain' = "done"
          /\ UNCHANGED ji
    /\ UNCHANGED <<jchan, jtx, jpc, jj, jreceived>>
    /\ UNCHANGED notJob

JobNext ==
    \/ JobSpawn
    \/ JobDropTx
    \/ \E i \in Producers : JobSend(i)
    \/ \E i \in Producers : JobSleep(i)
    \/ \E i \in Producers : JobProducerExit(i)
    \/ JobRecv
    \/ JobJoin

\* main as written, and main with drop(tx) left out.
JobDropOrKeepNext ==
    \/ JobSpawn
    \/ JobDropTx
    \/ JobKeepTx
    \/ \E i \in Producers : JobSend(i)
    \/ \E i \in Producers : JobSleep(i)
    \/ \E i \in Producers : JobProducerExit(i)
    \/ JobRecv
    \/ JobJoin

\* ========================================================================
\* Barrier pipeline   (src/concurrency/problem_9/main.rs)
\* ========================================================================

\* Barrier::new(4) and for worker_id in 0..4
NumPipeWorkers == 4
\* Each worker generates 10 items (for item_id in 0..10); the model bounds it.
MaxItems == 1

PipeWorkers == 0 .. (NumPipeWorkers - 1)

\* rng.random_range(1..100): the smallest and the largest value it yields.
RawValues == {1, 99}

\* DataItem { id, raw_value, processed_value }
DataItem(id, raw_value, processed_value) ==
    [id |-> id, raw_value |-> raw_value, processed_value |-> processed_value]

\* The Vecs a worker may have after phase 1: ids 0 .. MaxItems - 1, any raw
\* values, nothing processed.
GeneratedItems ==
    {[k \in 1 .. MaxItems |-> DataItem(k - 1, raw[k], None)] :
        raw \in [1 .. MaxItems -> RawValues]}

\* A phase 2 that stores the raw value without doubling it.
ProcessedNotDoubled(item) ==
    [item EXCEPT !.processed_value = Some(item.raw_value)]

\* item.processed_value = Some(item.raw_value * 2); raw_value is below 100,
\* so the product is far from the width of u32.
Processed(item) ==
    [item EXCEPT !.processed_value = Some(item.raw_value * 2)]

\* The state when all four workers have been spawned (each with its clone
\* of tx) and none has run yet.
PipeInit ==
    /\ bar_count = 0
    /\ bar_gen = 0
    /\ kpc = [w \in PipeWorkers |-> "phase1"]
    /\ kgen = [w \in PipeWorkers |-> 0]
    /\ items = [w \in PipeWorkers |-> <<>>]
    /\ ksent = [w \in PipeWorkers |-> 0]
    /\ phase1_complete = 0
    /\ phase2_complete = 0
    /\ phase3_complete = 0
    /\ total_processed = 0
    /\ kchan = <<>>
    /\ ktx = NumPipeWorkers + 1
    /\ kmain = "drop_tx"
    /\ kreceived = <<>>
    /\ arrived = {}
    /\ released = {}

\* Phase 1: generate the items, then phase1_complete.fetch_add(1)
Phase1(w) ==
    /\ kpc[w] = "phase1"
    /\ \E v \in GeneratedItems : items' = [items EXCEPT ![w] = v]
    /\ phase1_complete' = phase1_complete + 1
    /\ kpc' = [kpc EXCEPT ![w] = "wait1"]
    /\ UNCHANGED <<bar_count, bar_gen, kgen, ksent, phase2_complete, phase3_complete,
                   total_processed, kchan, ktx, kmain, kreceived, arrived, released>>
    /\ UNCHANGED notPipe

\* Phase 2: process every item, then phase2_complete.fetch_add(1)
Phase2(w) ==
    /\ kpc[w] = "phase2"
    /\ items' = [items EXCEPT ![w] = [k \in 1 .. Len(items[w]) |-> Processed(items[w][k])]]
    /\ phase2_complete' = phase2_complete + 1
    /\ kpc' = [kpc EXCEPT ![w] = "wait2"]
    /\ UNCHANGED <<bar_count, bar_gen, kgen, ksent, phase1_complete, phase3_complete,
                   total_processed, kchan, ktx, kmain, kreceived, arrived, released>>
    /\ UNCHANGED notPipe

\* Phase 3, for item in items: tx_clone.send(item).unwrap()
Phase3Send(w) ==
    /\ kpc[w] = "phase3"
    /\ ksent[w] < Len(items[w])
    /\ kchan' = ChanSend(kchan, items[w][ksent[w] + 1])
    /\ ksent' = [ksent EXCEPT ![w] = ksent[w] + 1]
    /\ kpc' = [kpc EXCEPT ![w] = "phase3_count"]
    /\ UNCHANGED <<bar_count, bar_gen, kgen, items, phase1_complete, phase2_complete,
                   phase3_complete, total_processed, ktx, kmain, kreceived, arrived,
                   released>>
    /\ UNCHANGED notPipe

\* Phase 3, for item in items: total_processed.fetch_add(1)
Phase3Count(w) ==
    /\ kpc[w] = "phase3_count"
    /\ total_processed' = total_processed + 1
    /\ kpc' = [kpc EXCEPT ![w] = "phase3"]
    /\ UNCHANGED <<bar_count, bar_gen, kgen, items, ksent, phase1_complete,
                   phase2_complete, phase3_complete, kchan, ktx, kmain, kreceived,
                   arrived, released>>
    /\ UNCHANGED notPipe

\* Phase 3, after the loop: phase3_complete.fetch_add(1)
Phase3Complete(w) ==
    /\ kpc[w] = "phase3"
    /\ ksent[w] = Len(items[w])
    /\ phase3_complete' = phase3_complete + 1
    /\ kpc' = [kpc EXCEPT ![w] = "wait3"]
    /\ UNCHANGED <<bar_count, bar_gen, kgen, items, ksent, phase1_complete,
                   phase2_complete, total_processed, kchan, ktx, kmain, kreceived,
                   arrived, released>>
    /\ UNCHANGED notPipe

\* Where a worker goes on when a wait returns.
AfterWait(pc) ==
    IF pc \in {"wait1", "blocked1"} THEN "phase2"
    ELSE IF pc \in {"wait2", "blocked2"} THEN "phase3"
    ELSE "exit"

Blocked(pc) ==
    IF pc = "wait1" THEN "blocked1" ELSE IF pc = "wait2" THEN "blocked2" ELSE "blocked3"

\* A barrier built for one thread more than call wait.
BarrierFullOneMore(count) == count >= NumPipeWorkers + 1

\* A barrier built for one thread fewer than call wait.
BarrierFullOneShort(count) == count >= NumPipeWorkers - 1

\* Barrier::wait: the caller that makes the count reach the number the
\* barrier was built for is the leader.
BarrierFull(count) == count >= NumPipeWorkers

\* barrier_clone.wait(), the call: the count goes up; the leader resets it,
\* starts the next generation and returns, any other caller blocks.
BarrierWait(w) ==
    /\ kpc[w] \in {"wait1", "wait2", "wait3"}
    /\ arrived' = arrived \cup {<<bar_gen, w>>}
    /\ kgen' = [kgen EXCEPT ![w] = bar_gen]
    /\ IF BarrierFull(bar_count + 1)
       THEN /\ bar_count' = 0
            /\ bar_gen' = bar_gen + 1
            /\ released' = released \cup {<<bar_gen, w>>}
            /\ kpc' = [kpc EXCEPT ![w] = AfterWait(kpc[w])]
       ELSE /\ bar_count' = bar_count + 1
            /\ kpc' = [kpc EXCEPT ![w] = Blocked(kpc[w])]
            /\ UNCHANGED <<bar_gen, released>>
    /\ UNCHANGED <<items, ksent, phase1_complete, phase2_complete, phase3_complete,
                   total_processed, kchan, ktx, kmain, kreceived>>
    /\ UNCHANGED notPipe

\* barrier_clone.wait(), the return of a blocked caller: its generation is
\* over.
BarrierReturn(w) ==
    /\ kpc[w] \in {"blocked1", "blocked2", "blocked3"}
    /\ kgen[w] # bar_gen
    /\ released' = released \cup {<<kgen[w], w>>}
    /\ kpc' = [kpc EXCEPT ![w] = AfterWait(kpc[w])]
    /\ UNCHANGED <<bar_count, bar_gen, kgen, items, ksent, phase1_complete,
                   phase2_complete, phase3_complete, total_processed, kchan, ktx,
                   kmain, kreceived, arrived>>
    /\ UNCHANGED notPipe

\* The closure returns and tx_clone, which it owns, is dropped.
PipeWorkerExit(w) ==
    /\ kpc[w] = "exit"
    /\ ktx' = ktx - 1
    /\ kpc' = [kpc EXCEPT ![w] = "done"]
    /\ UNCHANGED <<bar_count, bar_gen, kgen, items, ksent, phase1_complete,
                   phase2_complete, phase3_complete, total_processed, kchan, kmain,
                   kreceived, arrived, released>>
    /\ UNCHANGED notPipe

\* A panic inside a phase: the worker's closure unwinds before it calls the
\* next wait, and tx_clone, which the closure owns, is dropped.  One worker
\* at most panics.
PipePanic(w) ==
    /\ kpc[w] \in {"phase1", "phase2", "phase3", "phase3_count"}
    /\ \A u \in PipeWorkers : kpc[u] # "panicked"
    /\ ktx' = ktx - 1
    /\ kpc' = [kpc EXCEPT ![w] = "panicked"]
    /\ UNCHANGED <<bar_count, bar_gen, kgen, items, ksent, phase1_complete,
                   phase2_complete, phase3_complete, total_processed, kchan, kmain,
                   kreceived, arrived, released>>
    /\ UNCHANGED notPipe

\* drop(tx)
PipeDropTx ==
    /\ kmain = "drop_tx"
    /\ ktx' = ktx - 1
    /\ kmain' = "recv"
    /\ UNCHANGED <<bar_count, bar_gen, kpc, kgen, items, ksent, phase1_complete,
                   phase2_complete, phase3_complete, total_processed, kchan,
                   kreceived, arrived, released>>
    /\ UNCHANGED notPipe

\* loop { match rx.recv() { Ok(received) => ..., Err(_) => break } }
PipeRecv ==
    /\ kmain = "recv"
    /\ \/ /\ ~Disconnected(kchan, ktx)
          /\ kchan # <<>>
          /\ LET r == RecvValue(kchan) IN
              /\ kchan' = r.rest
              /\ kreceived' = Append(kreceived, r.ret[1])
          /\ UNCHANGED kmain
       \/ /\ Disconnected(kchan, ktx)
          /\ kmain' = "join"
          /\ UNCHANGED <<kchan, kreceived>>
    /\ UNCHANGED <<bar_count, bar_gen, kpc, kgen, items, ksent, phase1_complete,
                   phase2_complete, phase3_complete, total_processed, ktx, arrived,
                   released>>
    /\ UNCHANGED notPipe

\* for handle in handles { handle.join().unwrap(); }
PipeJoin ==
    /\ kmain = "join"
    /\ \A w \in PipeWorkers : kpc[w] = "done"
    /\ kmain' = "done"
    /\ UNCHANGED <<bar_count, bar_gen, kpc, kgen, items, ksent, phase1_complete,
                   phase2_complete, phase3_complete, total_processed, kchan, ktx,
                   kreceived, arrived, released>>
    /\ UNCHANGED notPipe

PipeNext ==
    \/ \E w \in PipeWorkers : Phase1(w)
    \/ \E w \in PipeWorkers : Phase2(w)
    \/ \E w \in PipeWorkers : Phase3Send(w)
    \/ \E w \in PipeWorkers : Phase3Count(w)
    \/ \E w \in PipeWorkers : Phase3Complete(w)
    \/ \E w \in PipeWorkers : BarrierWait(w)
    \/ \E w \in PipeWorkers : BarrierReturn(w)
    \/ \E w \in PipeWorkers : PipeWorkerExit(w)
    \/ PipeDropTx
    \/ PipeRecv
    \/ PipeJoin

\* The pipeline with a phase that may panic in one worker.
PipePanicNext ==
    \/ \E w \in PipeWorkers : Phase1(w)
    \/ \E w \in PipeWorkers : Phase2(w)
    \/ \E w \in PipeWorkers : Phase3Send(w)
    \/ \E w \in PipeWorkers : Phase3Count(w)
    \/ \E w \in PipeWorkers : Phase3Complete(w)
    \/ \E w \in PipeWorkers : BarrierWait(w)
    \/ \E w \in PipeWorkers : BarrierReturn(w)
    \/ \E w \in PipeWorkers : PipeWorkerExit(w)
    \/ \E w \in PipeWorkers : PipePanic(w)
    \/ PipeDropTx
    \/ PipeRecv
    \/ PipeJoin

\* ========================================================================
\* Thread pool on a shared receiver   (src/concurrency/problem_8/main.rs)
\* ========================================================================

\* ThreadPool::new(4)
NumPoolWorkers == 4
\* main submits 20 jobs (for i in 0..20); the model bounds the number.
MaxJobs == 6

PoolWorkers == 0 .. (NumPoolWorkers - 1)
JobIds == 0 .. (MaxJobs - 1)

\* A job is a boxed closure; what the pool can observe of it is whether the
\* call job() returns or panics.
Job(id, panics) == [id |-> id, panics |-> panics]

\* ThreadPool::new: the channel, the counter at 0 and the spawned workers,
\* each at the top of its loop.
TpInit ==
    /\ tp_queue = <<>>
    /\ tp_sender = 1
    /\ tp_rx_locked = FALSE
    /\ tp_wpc = [w \in PoolWorkers |-> "lock"]
    /\ tp_job = [w \in PoolWorkers |-> None]
    /\ completed_count = 0
    /\ tp_main = "execute"
    /\ tp_i = 0
    /\ tp_joined = 0
    /\ tp_runs = [j \in JobIds |-> 0]

\* A panic of the main thread ends the process.
ProcessRunning == tp_main # "panicked"

\* The Receiver lives in an Arc each worker closure holds a clone of (the Arc
\* made in new is dropped when new returns): it is dropped once every worker
\* thread has ended.
ReceiverAlive == \E w \in PoolWorkers : tp_wpc[w] \notin {"exited", "panicked"}

\* ThreadPool::execute: self.sender.send(job).unwrap(); send fails, and the
\* unwrap panics, when the Receiver is gone.  After the last job main calls
\* pool.join().
TpExecute(panics) ==
    /\ tp_main = "execute"
    /\ tp_i < MaxJobs
    /\ IF ReceiverAlive
       THEN /\ tp_queue' = ChanSend(tp_queue, Job(tp_i, panics))
            /\ tp_i' = tp_i + 1
            /\ tp_main' = IF tp_i + 1 = MaxJobs THEN "drop" ELSE "execute"
       ELSE /\ tp_main' = "panicked"
            /\ UNCHANGED <<tp_queue, tp_i>>
    /\ UNCHANGED <<tp_sender, tp_rx_locked, tp_wpc, tp_job, completed_count,
                   tp_joined, tp_runs>>
    /\ UNCHANGED notTp

\* ThreadPool::join: drop(self.sender)
TpDropSender ==
    /\ tp_main = "drop"
    /\ tp_sender' = tp_sender - 1
    /\ tp_main' = "join"
    /\ UNCHANGED <<tp_queue, tp_rx_locked, tp_wpc, tp_job, completed_count,
                   tp_i, tp_joined, tp_runs>>
    /\ UNCHANGED notTp

\* ThreadPool::join: for worker in self.workers { worker.thread.join().unwrap(); }
\* join returns Err for a thread that panicked, and the unwrap panics.
TpJoin ==
    /\ tp_main = "join"
    /\ tp_joined < NumPoolWorkers
    /\ tp_wpc[tp_joined] \in {"exited", "panicked"}
    /\ IF tp_wpc[tp_joined] = "panicked"
       THEN /\ tp_main' = "panicked"
            /\ UNCHANGED tp_joined
       ELSE /\ tp_joined' = tp_joined + 1
            /\ tp_main' = IF tp_joined + 1 = NumPoolWorkers THEN "done" ELSE "join"
    /\ UNCHANGED <<tp_queue, tp_sender, tp_rx_locked, tp_wpc, tp_job,
                   completed_count, tp_i, tp_runs>>
    /\ UNCHANGED notTp

\* rx_clone.lock().unwrap(): no thread panics while it holds the guard, so
\* the mutex is never poisoned.
TpLock(w) ==
    /\ ProcessRunning
    /\ tp_wpc[w] = "lock"
    /\ MutexFree(tp_rx_locked)
    /\ tp_rx_locked' = TRUE
    /\ tp_wpc' = [tp_wpc EXCEPT ![w] = "recv"]
    /\ UNCHANGED <<tp_queue, tp_sender, tp_job, completed_count, tp_main, tp_i,
                   tp_joined, tp_runs>>
    /\ UNCHANGED notTp

\* A worker that stores the guard in a variable of the loop body: the mutex
\* stays locked while the received job runs.
TpRecvKeepingGuard(w) ==
    /\ ProcessRunning
    /\ tp_wpc[w] = "recv"
    /\ IF tp_queue # <<>>
       THEN LET r == RecvValue(tp_queue) IN
            /\ tp_queue' = r.rest
            /\ tp_job' = [tp_job EXCEPT ![w] = r.ret]
            /\ tp_wpc' = [tp_wpc EXCEPT ![w] = "run"]
            /\ UNCHANGED tp_rx_locked
       ELSE /\ Disconnected(tp_queue, tp_sender)
            /\ tp_wpc' = [tp_wpc EXCEPT ![w] = "exited"]
            /\ tp_rx_locked' = FALSE
            /\ UNCHANGED <<tp_queue, tp_job>>
    /\ UNCHANGED <<tp_sender, completed_count, tp_main, tp_i, tp_joined, tp_runs>>
    /\ UNCHANGED notTp

\* .recv() under the guard, which is dropped at the end of the statement;
\* match recv { Ok(job) => ..., Err(_) => break }.  On an empty queue with a
\* live sender recv blocks, the guard held.
TpRecv(w) ==
    /\ ProcessRunning
    /\ tp_wpc[w] = "recv"
    /\ IF tp_queue # <<>>
       THEN LET r == RecvValue(tp_queue) IN
            /\ tp_queue' = r.rest
            /\ tp_job' = [tp_job EXCEPT ![w] = r.ret]
            /\ tp_wpc' = [tp_wpc EXCEPT ![w] = "run"]
       ELSE /\ Disconnected(tp_queue, tp_sender)
            /\ tp_wpc' = [tp_wpc EXCEPT ![w] = "exited"]
            /\ UNCHANGED <<tp_queue, tp_job>>
    /\ tp_rx_locked' = FALSE
    /\ UNCHANGED <<tp_sender, completed_count, tp_main, tp_i, tp_joined, tp_runs>>
    /\ UNCHANGED notTp

\* job(): the call happens in the worker's closure with nothing to catch a
\* panic, so a panic of the job unwinds and ends the worker thread.
TpRun(w) ==
    /\ ProcessRunning
    /\ tp_wpc[w] = "run"
    /\ tp_runs' = [tp_runs EXCEPT ![tp_job[w][1].id] = @ + 1]
    /\ tp_wpc' = [tp_wpc EXCEPT ![w] = IF tp_job[w][1].panics THEN "panicked" ELSE "count"]
    /\ UNCHANGED <<tp_queue, tp_sender, tp_rx_locked, tp_job, completed_count,
                   tp_main, tp_i, tp_joined>>
    /\ UNCHANGED notTp

\* completed_clone.fetch_add(1, Ordering::SeqCst), and back to the top.
TpCount(w) ==
    /\ ProcessRunning
    /\ tp_wpc[w] = "count"
    /\ completed_count' = completed_count + 1
    /\ tp_job' = [tp_job EXCEPT ![w] = None]
    /\ tp_wpc' = [tp_wpc EXCEPT ![w] = "lock"]
    /\ UNCHANGED <<tp_queue, tp_sender, tp_rx_locked, tp_main, tp_i, tp_joined, tp_runs>>
    /\ UNCHANGED notTp

\* main submits the jobs and joins, the workers run.  main's own jobs print
\* and sleep; execute<F> takes every FnOnce() + Send + 'static closure, one
\* that panics included, and the submitted jobs are drawn from both kinds.
TpNext ==
    \/ \E panics \in BOOLEAN : TpExecute(panics)
    \/ TpDropSender
    \/ TpJoin
    \/ \E w \in PoolWorkers : TpLock(w)
    \/ \E w \in PoolWorkers : TpRecv(w)
    \/ \E w \in PoolWorkers : TpRun(w)
    \/ \E w \in PoolWorkers : TpCount(w)

\* ========================================================================
\* parallel_map_reduce   (src/concurrency/problem_13/main.rs)
\* ========================================================================
\* A String is modelled as the sequence of its words; the words of a
\* sequence are separated by one space.

\* Bounds of the calls other than main's: length of data, largest element,
\* largest num_workers; and the largest number of chunks of any call.
MaxMrLen == 3
MaxMrValue == 2
MaxMrWorkers == 3
MaxMrChunks == 4

\* str::to_uppercase on the words of the tests of problem_13 and problem_14
to_uppercase(word) ==
    CASE word = "Hello" -> "HELLO"
      [] word = "parallel" -> "PARALLEL"
      [] word = "map" -> "MAP"
      [] word = "reduce" -> "REDUCE"
      [] word = "rust" -> "RUST"
      [] word = "scoped" -> "SCOPED"
      [] word = "threads" -> "THREADS"

\* The map closures of main: |x| x * x, |x| *x, |x| x * 2, |s| s.to_uppercase()
map_fn(f, x) ==
    CASE f = "square" -> x * x
      [] f = "identity" -> x
      [] f = "double" -> x * 2
      [] f = "to_uppercase" -> <<to_uppercase(x[1])>>

\* The reduce closures of main: |a, b| a + b, |a, b| a * b,
\* |a, b| format!("{} {}", a, b)
reduce_fn(f, a, b) ==
    CASE f = "add" -> a + b
      [] f = "mul" -> a * b
      [] f = "format" -> a \o b

\* An Iterator::reduce that keeps the first element only.
iter_reduce_first(f, s) == s[1]

\* Iterator::reduce with reduce_fn on a non-empty Vec, unwrapped: the first
\* element is the accumulator, the others are combined into it in order.
RECURSIVE iter_reduce(_, _)
iter_reduce(f, s) ==
    IF Len(s) = 1 THEN s[1]
    ELSE reduce_fn(f, iter_reduce(f, SubSeq(s, 1, Len(s) - 1)), s[Len(s)])

\* usize::div_ceil
div_ceil(a, b) == (a + b - 1) \div b

\* slice::chunks(n) with to_vec on every slice
Chunks(data, n) ==
    [c \in 1 .. div_ceil(Len(data), n) |->
        SubSeq(data, (c - 1) * n + 1,
               IF c * n < Len(data) THEN c * n ELSE Len(data))]

\* The calls of main (tests 1, 2 and 3) ...
MainCalls ==
    { [data |-> <<1, 2, 3, 4, 5, 6, 7, 8>>, workers |-> 4,
       map |-> "square", reduce |-> "add"],
      [data |-> <<1, 2, 3, 4, 5>>, workers |-> 2,
       map |-> "identity", reduce |-> "mul"],
      [data |-> << <<"Hello">>, <<"parallel">>, <<"map">>, <<"reduce">> >>,
       workers |-> 2, map |-> "to_uppercase", reduce |-> "format"] }

\* ... and calls on short inputs with 1 .. MaxMrWorkers workers.
SmallData ==
    UNION { [1 .. n -> 1 .. MaxMrValue] : n \in 1 .. MaxMrLen }

SmallCalls ==
    { [data |-> d, workers |-> n, map |-> f[1], reduce |-> f[2]] :
        d \in SmallData, n \in 1 .. MaxMrWorkers,
        f \in { <<"square", "add">>, <<"identity", "mul">>, <<"double", "add">> } }

MrCalls == MainCalls \cup SmallCalls

\* The call of parallel_map_reduce: its arguments are bound, nothing ran yet.
MrInit ==
    /\ \E call \in MrCalls :
         /\ mr_data = call.data
         /\ num_workers = call.workers
         /\ mr_map_fn = call.map
         /\ mr_reduce_fn = call.reduce
         /\ mr_calls = [k \in 1 .. Len(call.data) |-> 0]
    /\ chunk_size = 0
    /\ chunks = <<>>
    /\ mr_chan = <<>>
    /\ mr_tx = 0
    /\ mr_main = "split"
    /\ mr_i = 0
    /\ mr_pc = <<>>
    /\ partial_results = <<>>
    /\ partial_result = <<>>
    /\ final_results = <<>>
    /\ mr_result = None

\* chunk_size, chunks, mpsc::channel(), handles
MrSplit ==
    /\ mr_main = "split"
    /\ chunk_size' = div_ceil(Len(mr_data), num_workers)
    /\ chunks' = Chunks(mr_data, chunk_size')
    /\ mr_tx' = 1
    /\ mr_pc' = [c \in 1 .. Len(chunks') |-> "unspawned"]
    /\ partial_results' = [c \in 1 .. Len(chunks') |-> <<>>]
    /\ partial_result' = [c \in 1 .. Len(chunks') |-> None]
    /\ mr_main' = "spawn"
    /\ UNCHANGED <<mr_data, num_workers, mr_map_fn, mr_reduce_fn, mr_chan,
                   mr_i, final_results, mr_result, mr_calls>>
    /\ UNCHANGED notMr

\* for chunk in chunks: map_fn.clone(), tx.clone(), thread::spawn, handles.push
MrSpawn ==
    /\ mr_main = "spawn"
    /\ mr_i < Len(chunks)
    /\ mr_i' = mr_i + 1
    /\ mr_tx' = mr_tx + 1
    /\ mr_pc' = [mr_pc EXCEPT ![mr_i + 1] = "map"]
    /\ UNCHANGED <<mr_data, num_workers, mr_map_fn, mr_reduce_fn, chunk_size,
                   chunks, mr_chan, mr_main, partial_results, partial_result,
                   final_results, mr_result, mr_calls>>
    /\ UNCHANGED notMr

\* drop(tx)
MrDropTx ==
    /\ mr_main = "spawn"
    /\ mr_i = Len(chunks)
    /\ mr_tx' = mr_tx - 1
    /\ mr_main' = "recv"
    /\ UNCHANGED <<mr_data, num_workers, mr_map_fn, mr_reduce_fn, chunk_size,
                   chunks, mr_chan, mr_i, mr_pc, partial_results,
                   partial_result, final_results, mr_result, mr_calls>>
    /\ UNCHANGED notMr

\* Position in data of the element the thread of chunk c maps next.
NextElement(c) == (c - 1) * chunk_size + Len(partial_results[c]) + 1

\* for element in &chunk: one iteration
MrMap(c) ==
    /\ c \in DOMAIN mr_pc
    /\ mr_pc[c] = "map"
    /\ Len(partial_results[c]) < Len(chunks[c])
    /\ partial_results' =
         [partial_results EXCEPT ![c] =
            Append(@, map_fn(mr_map_fn, chunks[c][Len(@) + 1]))]
    /\ mr_calls' = [mr_calls EXCEPT ![NextElement(c)] = @ + 1]
    /\ UNCHANGED <<mr_data, num_workers, mr_map_fn, mr_reduce_fn, chunk_size,
                   chunks, mr_chan, mr_tx, mr_main, mr_i, mr_pc,
                   partial_result, final_results, mr_result>>
    /\ UNCHANGED notMr

\* partial_results.into_iter().reduce(...).unwrap()
MrLocalReduce(c) ==
    /\ c \in DOMAIN mr_pc
    /\ mr_pc[c] = "map"
    /\ Len(partial_results[c]) = Len(chunks[c])
    /\ partial_result' =
         [partial_result EXCEPT ![c] = iter_reduce(mr_reduce_fn, partial_results[c])]
    /\ mr_pc' = [mr_pc EXCEPT ![c] = "send"]
    /\ UNCHANGED <<mr_data, num_workers, mr_map_fn, mr_reduce_fn, chunk_size,
                   chunks, mr_chan, mr_tx, mr_main, mr_i, partial_results,
                   final_results, mr_result, mr_calls>>
    /\ UNCHANGED notMr

\* tx_clone.send(partial_result).unwrap()
MrSend(c) ==
    /\ c \in DOMAIN mr_pc
    /\ mr_pc[c] = "send"
    /\ mr_chan' = Append(mr_chan, partial_result[c])
    /\ mr_pc' = [mr_pc EXCEPT ![c] = "exit"]
    /\ UNCHANGED <<mr_data, num_workers, mr_map_fn, mr_reduce_fn, chunk_size,
                   chunks, mr_tx, mr_main, mr_i, partial_results,
                   partial_result, final_results, mr_result, mr_calls>>
    /\ UNCHANGED notMr

\* The closure returns: tx_clone is dropped.
MrExit(c) ==
    /\ c \in DOMAIN mr_pc
    /\ mr_pc[c] = "exit"
    /\ mr_tx' = mr_tx - 1
    /\ mr_pc' = [mr_pc EXCEPT ![c] = "done"]
    /\ UNCHANGED <<mr_data, num_workers, mr_map_fn, mr_reduce_fn, chunk_size,
                   chunks, mr_chan, mr_main, mr_i, partial_results,
                   partial_result, final_results, mr_result, mr_calls>>
    /\ UNCHANGED notMr

\* for partial_result in rx { final_results.push(partial_result) }
MrRecv ==
    /\ mr_main = "recv"
    /\ \/ /\ mr_chan # <<>>
          /\ final_results' = Append(final_results, Head(mr_chan))
          /\ mr_chan' = Tail(mr_chan)
          /\ UNCHANGED mr_main
       \/ /\ Disconnected(mr_chan, mr_tx)
          /\ mr_main' = "reduce"
          /\ UNCHANGED <<mr_chan, final_results>>
    /\ UNCHANGED <<mr_data, num_workers, mr_map_fn, mr_reduce_fn, chunk_size,
                   chunks, mr_tx, mr_i, mr_pc, partial_results,
                   partial_result, mr_result, mr_calls>>
    /\ UNCHANGED notMr

\* final_results.into_iter().reduce(...).unwrap()
MrFinalReduce ==
    /\ mr_main = "reduce"
    /\ mr_result' = iter_reduce(mr_reduce_fn, final_results)
    /\ mr_main' = "done"
    /\ UNCHANGED <<mr_data, num_workers, mr_map_fn, mr_reduce_fn, chunk_size,
                   chunks, mr_chan, mr_tx, mr_i, mr_pc, partial_results,
                   partial_result, final_results, mr_calls>>
    /\ UNCHANGED notMr

MrChunkIds == 1 .. MaxMrChunks

MrNext ==
    \/ MrSplit
    \/ MrSpawn
    \/ MrDropTx
    \/ \E c \in MrChunkIds : MrMap(c)
    \/ \E c \in MrChunkIds : MrLocalReduce(c)
    \/ \E c \in MrChunkIds : MrSend(c)
    \/ \E c \in MrChunkIds : MrExit(c)
    \/ MrRecv
    \/ MrFinalReduce

\* ========================================================================
\* ThreadPoolBuilder   (src/concurrency/problem_16/main.rs)
\* ========================================================================

\* Number of setter calls on one builder, the values they are given, and
\* the machines the program runs on.
MaxSetterCalls == 3
ThreadCounts == {1, 4, 8}
StackSizes == {1024, 2 * 1024 * 1024, 4 * 1024 * 1024}
HardwareThreadCounts == {2, 4, 16}

\* Option::unwrap_or
unwrap_or(option, default) == IF option = None THEN default ELSE option[1]

\* ThreadPoolBuilder::new()
TbInit ==
    /\ hardware_threads \in HardwareThreadCounts
    /\ tb_num_threads = None
    /\ tb_stack_size = None
    /\ tb_setters = <<>>
    /\ tb_pool = None

\* ThreadPoolBuilder::num_threads(n)
TbNumThreads(n) ==
    /\ tb_pool = None
    /\ Len(tb_setters) < MaxSetterCalls
    /\ tb_num_threads' = Some(n)
    /\ tb_setters' = Append(tb_setters, <<"num_threads", n>>)
    /\ UNCHANGED <<hardware_threads, tb_stack_size, tb_pool>>
    /\ UNCHANGED notTb

\* ThreadPoolBuilder::stack_size(size)
TbStackSize(size) ==
    /\ tb_pool = None
    /\ Len(tb_setters) < MaxSetterCalls
    /\ tb_stack_size' = Some(size)
    /\ tb_setters' = Append(tb_setters, <<"stack_size", size>>)
    /\ UNCHANGED <<hardware_threads, tb_num_threads, tb_pool>>
    /\ UNCHANGED notTb

\* ThreadPoolBuilder::build(): consumes the builder
TbBuild ==
    /\ tb_pool = None
    /\ tb_pool' = [num_threads |-> unwrap_or(tb_num_threads, 4),
                   stack_size |-> unwrap_or(tb_stack_size, 2 * 1024 * 1024)]
    /\ UNCHANGED <<hardware_threads, tb_num_threads, tb_stack_size, tb_setters>>
    /\ UNCHANGED notTb

TbNext ==
    \/ \E n \in ThreadCounts : TbNumThreads(n)
    \/ \E size \in StackSizes : TbStackSize(size)
    \/ TbBuild

\* ========================================================================
\* Worker pool on a shared TaskQueue   (src/concurrency/problem_10/main.rs)
\* ========================================================================

\* for worker_id in 0..4
NumQueueWorkers == 4
\* main adds 20 Process tasks (for i in 0..20); the model bounds the number.
MaxProcessTasks == 4

QueueWorkers == 0 .. NumQueueWorkers - 1
ProcessIds == 0 .. MaxProcessTasks - 1

\* enum Task
ProcessTask(i) == [kind |-> "Process", id |-> i, value |-> i * 3]
ShutdownTask == [kind |-> "Shutdown"]

\* A VecDeque::pop_back in the place of pop_front.
pop_back(q) ==
    IF q = <<>> THEN [ret |-> None, rest |-> q]
    ELSE [ret |-> Some(q[Len(q)]), rest |-> SubSeq(q, 1, Len(q) - 1)]

\* VecDeque::pop_front
pop_front(q) ==
    IF q = <<>> THEN [ret |-> None, rest |-> q]
    ELSE [ret |-> Some(Head(q)), rest |-> Tail(q)]

\* TaskQueue::new(), and main before its first loop
WqInit ==
    /\ wq_tasks = <<>>
    /\ total_completed = 0
    /\ wq_main = "add"
    /\ wq_i = 0
    /\ wq_pc = [w \in QueueWorkers |-> "unspawned"]
    /\ wq_task = [w \in QueueWorkers |-> None]
    /\ wq_completed = [w \in QueueWorkers |-> 0]
    /\ wq_all_stats = <<>>
    /\ wq_processed = [i \in ProcessIds |-> 0]
    /\ wq_shutdowns = [w \in QueueWorkers |-> 0]
    /\ wq_saw_empty = FALSE

\* main: for i in 0..20 { queue.add_task(Task::Process { id: i, value: i * 3 }) }
\* add_task pushes to the back under the lock.
WqAddProcess ==
    /\ wq_main = "add"
    /\ IF wq_i < MaxProcessTasks
       THEN /\ wq_tasks' = Append(wq_tasks, ProcessTask(wq_i))
            /\ wq_i' = wq_i + 1
            /\ UNCHANGED wq_main
       ELSE /\ wq_main' = "spawn"
            /\ wq_i' = 0
            /\ UNCHANGED wq_tasks
    /\ UNCHANGED <<total_completed, wq_pc, wq_task, wq_completed, wq_all_stats,
                   wq_processed, wq_shutdowns, wq_saw_empty>>
    /\ UNCHANGED notWq

\* main: for worker_id in 0..4 { ... thread::spawn ... handles.push(handle) }
WqSpawn ==
    /\ wq_main = "spawn"
    /\ IF wq_i < NumQueueWorkers
       THEN /\ wq_pc' = [wq_pc EXCEPT ![wq_i] = "get_task"]
            /\ wq_i' = wq_i + 1
            /\ UNCHANGED wq_main
       ELSE /\ wq_main' = "shutdown"
            /\ wq_i' = 0
            /\ UNCHANGED wq_pc
    /\ UNCHANGED <<wq_tasks, total_completed, wq_task, wq_completed,
                   wq_all_stats, wq_processed, wq_shutdowns, wq_saw_empty>>
    /\ UNCHANGED notWq

\* main: for _ in 0..4 { queue.add_task(Task::Shutdown) }
WqAddShutdown ==
    /\ wq_main = "shutdown"
    /\ IF wq_i < NumQueueWorkers
       THEN /\ wq_tasks' = Append(wq_tasks, ShutdownTask)
            /\ wq_i' = wq_i + 1
            /\ UNCHANGED wq_main
       ELSE /\ wq_main' = "join"
            /\ wq_i' = 0
            /\ UNCHANGED wq_tasks
    /\ UNCHANGED <<total_completed, wq_pc, wq_task, wq_completed, wq_all_stats,
                   wq_processed, wq_shutdowns, wq_saw_empty>>
    /\ UNCHANGED notWq

\* worker: let task = queue_clone.get_task(); match task
\* get_task pops the front under the lock.
WqGetTask(w) ==
    /\ wq_pc[w] = "get_task"
    /\ LET got == pop_front(wq_tasks) IN
         /\ wq_tasks' = got.rest
         /\ wq_task' = [wq_task EXCEPT ![w] = got.ret]
         /\ wq_pc' = [wq_pc EXCEPT ![w] =
                IF got.ret = None THEN "sleep"
                ELSE IF got.ret[1].kind = "Process" THEN "process"
                ELSE "exit"]
         /\ wq_shutdowns' = [wq_shutdowns EXCEPT ![w] =
                IF got.ret # None /\ got.ret[1].kind = "Shutdown" THEN @ + 1 ELSE @]
         /\ wq_saw_empty' = (wq_saw_empty \/ got.ret = None)
    /\ UNCHANGED <<total_completed, wq_main, wq_i, wq_completed, wq_all_stats,
                   wq_processed>>
    /\ UNCHANGED notWq

\* worker: process_task(&t); completed += 1
WqProcess(w) ==
    /\ wq_pc[w] = "process"
    /\ wq_processed' = [wq_processed EXCEPT ![wq_task[w][1].id] = @ + 1]
    /\ wq_completed' = [wq_completed EXCEPT ![w] = @ + 1]
    /\ wq_pc' = [wq_pc EXCEPT ![w] = "mark_completed"]
    /\ UNCHANGED <<wq_tasks, total_completed, wq_main, wq_i, wq_task,
                   wq_all_stats, wq_shutdowns, wq_saw_empty>>
    /\ UNCHANGED notWq

\* worker: queue_clone.mark_completed()
WqMarkCompleted(w) ==
    /\ wq_pc[w] = "mark_completed"
    /\ total_completed' = total_completed + 1
    /\ wq_pc' = [wq_pc EXCEPT ![w] = "get_task"]
    /\ UNCHANGED <<wq_tasks, wq_main, wq_i, wq_task, wq_completed,
                   wq_all_stats, wq_processed, wq_shutdowns, wq_saw_empty>>
    /\ UNCHANGED notWq

\* worker: None => { thread::sleep(100 ms); continue }
WqSleep(w) ==
    /\ wq_pc[w] = "sleep"
    /\ wq_pc' = [wq_pc EXCEPT ![w] = "get_task"]
    /\ UNCHANGED <<wq_tasks, total_completed, wq_main, wq_i, wq_task,
                   wq_completed, wq_all_stats, wq_processed, wq_shutdowns,
                   wq_saw_empty>>
    /\ UNCHANGED notWq

\* worker: Some(Task::Shutdown) => break; the closure returns WorkerStats
WqExit(w) ==
    /\ wq_pc[w] = "exit"
    /\ wq_pc' = [wq_pc EXCEPT ![w] = "done"]
    /\ UNCHANGED <<wq_tasks, total_completed, wq_main, wq_i, wq_task,
                   wq_completed, wq_all_stats, wq_processed, wq_shutdowns,
                   wq_saw_empty>>
    /\ UNCHANGED notWq

\* struct WorkerStats, as the closure of worker w returns it
WorkerStats(w) == [worker_id |-> w, tasks_completed |-> wq_completed[w]]

\* main: for handle in handles { all_stats.push(handle.join().unwrap()) },
\* then the statistics
WqJoin ==
    /\ wq_main = "join"
    /\ IF wq_i < NumQueueWorkers
       THEN /\ wq_pc[wq_i] = "done"
            /\ wq_all_stats' = Append(wq_all_stats, WorkerStats(wq_i))
            /\ wq_i' = wq_i + 1
            /\ UNCHANGED wq_main
       ELSE /\ wq_main' = "done"
            /\ UNCHANGED <<wq_i, wq_all_stats>>
    /\ UNCHANGED <<wq_tasks, total_completed, wq_pc, wq_task, wq_completed,
                   wq_processed, wq_shutdowns, wq_saw_empty>>
    /\ UNCHANGED notWq

WqNext ==
    \/ WqAddProcess
    \/ WqSpawn
    \/ WqAddShutdown
    \/ \E w \in QueueWorkers : WqGetTask(w)
    \/ \E w \in QueueWorkers : WqProcess(w)
    \/ \E w \in QueueWorkers : WqMarkCompleted(w)
    \/ \E w \in QueueWorkers : WqSleep(w)
    \/ \E w \in QueueWorkers : WqExit(w)
    \/ WqJoin

\* ========================================================================
\* Bank transfers   (src/concurrency/problem_06/main.rs)
\* ========================================================================
\* The balances are f64 in the code; all amounts here are whole numbers far
\* below 2^53, on which f64 arithmetic is exact.

\* Account { id: 1, .. } and Account { id: 2, .. }, each with balance 1000.0
AccountIds == {1, 2}
InitialBalance == 1000

\* main spawns two threads; transfer_2 is called from up to MaxBankThreads.
NumTransferThreads == 2
MaxBankThreads == 3

\* The amounts of main's calls: 100.0 and 50.0
Amounts == {50, 100}

\* A call between two distinct accounts.
TransferCalls ==
    { call \in [from : AccountIds, to : AccountIds, amount : Amounts] :
        call.from # call.to }

\* A Mutex::lock that never waits.
LockNeverBlocks(holder) == TRUE

\* Mutex::lock returns once no thread holds the mutex.
LockFree(holder) == holder = None

\* A transfer_2 that locks the from account first.
FirstLockIsFrom(call) == call.from

\* transfer_2: let (first, second, is_forward) = if from_id < to_id
\* { (from, to, true) } else { (to, from, false) }
FirstLock(call) == IF call.from < call.to THEN call.from ELSE call.to
SecondLock(call) == IF FirstLock(call) = call.from THEN call.to ELSE call.from
is_forward(call) == FirstLock(call) = call.from

\* main: the accounts, and the spawned threads each about to call transfer;
\* the calls are main's or any other pair of calls between the accounts.
BankInit ==
    /\ balance = [a \in AccountIds |-> InitialBalance]
    /\ lock_holder = [a \in AccountIds |-> None]
    /\ bk_call \in [1 .. NumTransferThreads -> TransferCalls]
    /\ bk_pc = [t \in 1 .. NumTransferThreads |-> "lock_from"]
    /\ bk_main = "join"

\* The same with threads that call transfer_2.
Bank2Init ==
    /\ balance = [a \in AccountIds |-> InitialBalance]
    /\ lock_holder = [a \in AccountIds |-> None]
    /\ \E n \in 2 .. MaxBankThreads :
         /\ bk_call \in [1 .. n -> TransferCalls]
         /\ bk_pc = [t \in 1 .. n |-> "lock_first"]
    /\ bk_main = "join"

\* transfer: let mut from_account = from.lock().unwrap(); sleep(10 ms)
TransferLockFrom(t) ==
    /\ t \in DOMAIN bk_pc
    /\ bk_pc[t] = "lock_from"
    /\ LockFree(lock_holder[bk_call[t].from])
    /\ lock_holder' = [lock_holder EXCEPT ![bk_call[t].from] = Some(t)]
    /\ bk_pc' = [bk_pc EXCEPT ![t] = "lock_to"]
    /\ UNCHANGED <<balance, bk_call, bk_main>>
    /\ UNCHANGED notBk

\* transfer: let mut to_account = to.lock().unwrap();
TransferLockTo(t) ==
    /\ t \in DOMAIN bk_pc
    /\ bk_pc[t] = "lock_to"
    /\ LockFree(lock_holder[bk_call[t].to])
    /\ lock_holder' = [lock_holder EXCEPT ![bk_call[t].to] = Some(t)]
    /\ bk_pc' = [bk_pc EXCEPT ![t] = "move"]
    /\ UNCHANGED <<balance, bk_call, bk_main>>
    /\ UNCHANGED notBk

\* transfer: from_account.balance -= amount; to_account.balance += amount;
\* the function returns and both guards are dropped.
TransferMove(t) ==
    /\ t \in DOMAIN bk_pc
    /\ bk_pc[t] = "move"
    /\ balance' = [balance EXCEPT ![bk_call[t].from] = @ - bk_call[t].amount,
                                  ![bk_call[t].to] = @ + bk_call[t].amount]
    /\ lock_holder' = [lock_holder EXCEPT ![bk_call[t].from] = None,
                                          ![bk_call[t].to] = None]
    /\ bk_pc' = [bk_pc EXCEPT ![t] = "done"]
    /\ UNCHANGED <<bk_call, bk_main>>
    /\ UNCHANGED notBk

\* transfer_2: let mut first_guard = first.lock().unwrap();
Transfer2LockFirst(t) ==
    /\ t \in DOMAIN bk_pc
    /\ bk_pc[t] = "lock_first"
    /\ LockFree(lock_holder[FirstLock(bk_call[t])])
    /\ lock_holder' = [lock_holder EXCEPT ![FirstLock(bk_call[t])] = Some(t)]
    /\ bk_pc' = [bk_pc EXCEPT ![t] = "lock_second"]
    /\ UNCHANGED <<balance, bk_call, bk_main>>
    /\ UNCHANGED notBk

\* transfer_2: let mut second_guard = second.lock().unwrap();
Transfer2LockSecond(t) ==
    /\ t \in DOMAIN bk_pc
    /\ bk_pc[t] = "lock_second"
    /\ LockFree(lock_holder[SecondLock(bk_call[t])])
    /\ lock_holder' = [lock_holder EXCEPT ![SecondLock(bk_call[t])] = Some(t)]
    /\ bk_pc' = [bk_pc EXCEPT ![t] = "move_2"]
    /\ UNCHANGED <<balance, bk_call, bk_main>>
    /\ UNCHANGED notBk

\* transfer_2: if is_forward { first -= amount; second += amount }
\* else { second -= amount; first += amount }; both guards are dropped.
Transfer2Move(t) ==
    /\ t \in DOMAIN bk_pc
    /\ bk_pc[t] = "move_2"
    /\ LET first == FirstLock(bk_call[t])
           second == SecondLock(bk_call[t])
           amount == bk_call[t].amount
       IN  /\ balance' =
                 IF is_forward(bk_call[t])
                 THEN [balance EXCEPT ![first] = @ - amount, ![second] = @ + amount]
                 ELSE [balance EXCEPT ![second] = @ - amount, ![first] = @ + amount]
           /\ lock_holder' = [lock_holder EXCEPT ![first] = None, ![second] = None]
    /\ bk_pc' = [bk_pc EXCEPT ![t] = "done"]
    /\ UNCHANGED <<bk_call, bk_main>>
    /\ UNCHANGED notBk

\* main: handle1.join().unwrap(); handle2.join().unwrap(); final balances
BankJoin ==
    /\ bk_main = "join"
    /\ \A t \in DOMAIN bk_pc : bk_pc[t] = "done"
    /\ bk_main' = "done"
    /\ UNCHANGED <<balance, lock_holder, bk_call, bk_pc>>
    /\ UNCHANGED notBk

BankThreads == 1 .. MaxBankThreads

BankNext ==
    \/ \E t \in BankThreads : TransferLockFrom(t)
    \/ \E t \in BankThreads : TransferLockTo(t)
    \/ \E t \in BankThreads : TransferMove(t)
    \/ BankJoin

Bank2Next ==
    \/ \E t \in BankThreads : Transfer2LockFirst(t)
    \/ \E t \in BankThreads : Transfer2LockSecond(t)
    \/ \E t \in BankThreads : Transfer2Move(t)
    \/ BankJoin

\* ========================================================================
\* Scoped-thread computations   (src/concurrency/problem_14/main.rs)
\* ========================================================================

\* Bounds of the calls other than main's: length of data, largest
\* num_threads; and the largest number of chunks of any call.
MaxPsLen == 3
MaxPsThreads == 3
MaxPsChunks == 4

\* main: |age| *age >= 18
predicate(age) == age >= 18

\* Iterator::sum::<i32>() on values whose sum stays far inside i32
RECURSIVE iter_sum(_)
iter_sum(s) == IF s = <<>> THEN 0 ELSE Head(s) + iter_sum(Tail(s))

\* What the thread of a chunk returns:
\* chunk.iter().sum::<i32>(),
\* chunk.iter().filter(|&value| predicate(value)).cloned().collect(),
\* chunk.iter().map(|value| func(value)).collect()
ChunkResult(f, chunk) ==
    CASE f = "parallel_sum" -> iter_sum(chunk)
      [] f = "parallel_search" -> SelectSeq(chunk, predicate)
      [] f = "parallel_map" -> [k \in 1 .. Len(chunk) |-> to_uppercase(chunk[k])]

\* A collect that puts each joined thread's values in front.
collect_joined_front(f, acc, ret) ==
    IF f = "parallel_sum" THEN acc + ret ELSE ret \o acc

\* handles.into_iter().map(|h| h.join().unwrap()).sum() and
\* handles.into_iter().flat_map(|h| h.join().unwrap()).collect(): one handle
collect_joined(f, acc, ret) ==
    IF f = "parallel_sum" THEN acc + ret ELSE acc \o ret

\* The data main passes to the function (tests 1, 2 and 3) with its
\* num_threads, and the values of the other calls' data.
PsMainCall(f) ==
    CASE f = "parallel_sum" ->
            [fn |-> f, data |-> <<1, 2, 3, 4, 5, 6, 7, 8, 9, 10>>, threads |-> 4]
      [] f = "parallel_search" ->
            [fn |-> f, data |-> <<15, 22, 18, 35, 42, 19, 50, 28, 33>>, threads |-> 3]
      [] f = "parallel_map" ->
            [fn |-> f, data |-> <<"rust", "parallel", "scoped", "threads">>, threads |-> 2]

PsValues(f) ==
    CASE f = "parallel_sum" -> {1, 2}
      [] f = "parallel_search" -> {15, 22}
      [] f = "parallel_map" -> {"rust", "scoped"}

\* The calls of a function: main's, and calls on short non-empty inputs with
\* 1 .. MaxPsThreads threads.
PsCalls(f) ==
    {PsMainCall(f)} \cup
    { [fn |-> f, data |-> d, threads |-> n] :
        d \in UNION { [1 .. k -> PsValues(f)] : k \in 1 .. MaxPsLen },
        n \in 1 .. MaxPsThreads }

\* The chunks of the call: data.chunks((data.len() + num_threads - 1) / num_threads)
PsChunks == Chunks(ps_data, div_ceil(Len(ps_data), ps_num_threads))

\* The call: arguments bound, chunk_size computed, the scope entered.
PsInit ==
    /\ \E f \in {"parallel_sum", "parallel_search", "parallel_map"} :
       \E call \in PsCalls(f) :
         /\ ps_fn = call.fn
         /\ ps_data = call.data
         /\ ps_num_threads = call.threads
         /\ ps_result = IF call.fn = "parallel_sum" THEN 0 ELSE <<>>
    /\ ps_main = "spawn"
    /\ ps_i = 0
    /\ ps_pc = <<>>
    /\ ps_ret = <<>>

\* for chunk in data.chunks(chunk_size) { s.spawn(..); handles.push(handle) }
PsSpawn ==
    /\ ps_main = "spawn"
    /\ IF ps_i < Len(PsChunks)
       THEN /\ ps_pc' = Append(ps_pc, "running")
            /\ ps_ret' = Append(ps_ret, None)
            /\ ps_i' = ps_i + 1
            /\ UNCHANGED ps_main
       ELSE /\ ps_main' = "join"
            /\ ps_i' = 0
            /\ UNCHANGED <<ps_pc, ps_ret>>
    /\ UNCHANGED <<ps_fn, ps_data, ps_num_threads, ps_result>>
    /\ UNCHANGED notPs

\* The closure of the thread of chunk c runs and returns.
PsRun(c) ==
    /\ c \in DOMAIN ps_pc
    /\ ps_pc[c] = "running"
    /\ ps_ret' = [ps_ret EXCEPT ![c] = Some(ChunkResult(ps_fn, PsChunks[c]))]
    /\ ps_pc' = [ps_pc EXCEPT ![c] = "finished"]
    /\ UNCHANGED <<ps_fn, ps_data, ps_num_threads, ps_main, ps_i, ps_result>>
    /\ UNCHANGED notPs

\* The handles are joined in the order they were pushed; after the last one
\* the scope returns the collected value.
PsJoin ==
    /\ ps_main = "join"
    /\ IF ps_i < Len(ps_pc)
       THEN /\ ps_pc[ps_i + 1] = "finished"
            /\ ps_result' = collect_joined(ps_fn, ps_result, ps_ret[ps_i + 1][1])
            /\ ps_i' = ps_i + 1
            /\ UNCHANGED ps_main
       ELSE /\ ps_main' = "done"
            /\ UNCHANGED <<ps_i, ps_result>>
    /\ UNCHANGED <<ps_fn, ps_data, ps_num_threads, ps_pc, ps_ret>>
    /\ UNCHANGED notPs

PsNext ==
    \/ PsSpawn
    \/ \E c \in 1 .. MaxPsChunks : PsRun(c)
    \/ PsJoin

\* ---------------------------------------------------------------------------
\* Atomic statistics (problem_7)
\* ---------------------------------------------------------------------------

\* for worker_id in 0..5
NumStatWorkers == 5

\* for task_num in 0..100, cut down to MaxStatTasks tasks per worker.
MaxStatTasks == 2

StatWorkers == 1..NumStatWorkers

\* fetch_add(1, SeqCst) on an AtomicU32: the new value of the counter. The
\* counters stay below NumStatWorkers * MaxStatTasks, far from 2^32.
fetch_add(counter) == counter + 1

\* Statistics::new and the state of main before the first spawn.
StInit ==
    /\ stat_total_processed = 0
    /\ in_progress = 0
    /\ success_count = 0
    /\ error_count = 0
    /\ st_main = "spawn_workers"
    /\ st_i = 0
    /\ st_pc = [w \in StatWorkers |-> "unspawned"]
    /\ st_task = [w \in StatWorkers |-> 0]
    /\ mon_pc = "unspawned"

\* main spawns the next worker; after the last one it goes on to the monitor.
StSpawnWorker ==
    /\ st_main = "spawn_workers"
    /\ st_i < NumStatWorkers
    /\ st_pc' = [st_pc EXCEPT ![st_i + 1] = "start_task"]
    /\ st_i' = st_i + 1
    /\ st_main' = IF st_i + 1 = NumStatWorkers THEN "spawn_monitor"
                  ELSE "spawn_workers"
    /\ UNCHANGED <<stat_total_processed, in_progress, success_count,
                   error_count, st_task, mon_pc>>
    /\ UNCHANGED notSt

\* main spawns the monitor thread after the workers.
StSpawnMonitor ==
    /\ st_main = "spawn_monitor"
    /\ mon_pc' = "sleep"
    /\ st_main' = "join_workers"
    /\ st_i' = 0
    /\ UNCHANGED <<stat_total_processed, in_progress, success_count,
                   error_count, st_pc, st_task>>
    /\ UNCHANGED notSt

\* start_task: in_progress.fetch_add(1).
StStartTask(w) ==
    /\ st_pc[w] = "start_task"
    /\ in_progress' = fetch_add(in_progress)
    /\ st_pc' = [st_pc EXCEPT ![w] = "fetch_sub"]
    /\ UNCHANGED <<stat_total_processed, success_count, error_count, st_main,
                   st_i, st_task, mon_pc>>
    /\ UNCHANGED notSt

\* complete_task, first statement: in_progress.fetch_sub(1), after the sleep
\* of the worker. The worker incremented the counter before, so it is
\* positive here and the subtraction does not wrap.
StCompleteSub(w) ==
    /\ st_pc[w] = "fetch_sub"
    /\ in_progress' = in_progress - 1
    /\ st_pc' = [st_pc EXCEPT ![w] = "total"]
    /\ UNCHANGED <<stat_total_processed, success_count, error_count, st_main,
                   st_i, st_task, mon_pc>>
    /\ UNCHANGED notSt

\* complete_task without its second statement.
StCompleteTotalSkipped(w) ==
    /\ st_pc[w] = "total"
    /\ st_pc' = [st_pc EXCEPT ![w] = "count"]
    /\ UNCHANGED <<stat_total_processed, in_progress, success_count,
                   error_count, st_main, st_i, st_task, mon_pc>>
    /\ UNCHANGED notSt

\* complete_task, second statement: total_processed.fetch_add(1).
StCompleteTotal(w) ==
    /\ st_pc[w] = "total"
    /\ stat_total_processed' = fetch_add(stat_total_processed)
    /\ st_pc' = [st_pc EXCEPT ![w] = "count"]
    /\ UNCHANGED <<in_progress, success_count, error_count, st_main, st_i,
                   st_task, mon_pc>>
    /\ UNCHANGED notSt

\* complete_task, last statement: success_count or error_count is incremented,
\* and the worker goes to its next task or returns. success is the random
\* draw of the worker (random_num < 0.8); only this statement reads it.
StCompleteCount(w) ==
    /\ st_pc[w] = "count"
    /\ \E success \in BOOLEAN :
          IF success
          THEN /\ success_count' = fetch_add(success_count)
               /\ UNCHANGED error_count
          ELSE /\ error_count' = fetch_add(error_count)
               /\ UNCHANGED success_count
    /\ st_task' = [st_task EXCEPT ![w] = st_task[w] + 1]
    /\ st_pc' = [st_pc EXCEPT ![w] = IF st_task[w] + 1 = MaxStatTasks
                                     THEN "done" ELSE "start_task"]
    /\ UNCHANGED <<stat_total_processed, in_progress, st_main, st_i, mon_pc>>
    /\ UNCHANGED notSt

\* The monitor: thread::sleep(100ms) at the top of its loop.
MonitorSleep ==
    /\ mon_pc = "sleep"
    /\ mon_pc' = "load"
    /\ UNCHANGED <<stat_total_processed, in_progress, success_count,
                   error_count, st_main, st_i, st_pc, st_task>>
    /\ UNCHANGED notSt

\* The monitor loads in_progress: 0 breaks the loop, anything else prints the
\* statistics and loops.
MonitorLoad ==
    /\ mon_pc = "load"
    /\ mon_pc' = IF in_progress = 0 THEN "done" ELSE "sleep"
    /\ UNCHANGED <<stat_total_processed, in_progress, success_count,
                   error_count, st_main, st_i, st_pc, st_task>>
    /\ UNCHANGED notSt

\* main joins the handles of the workers in spawn order.
StJoinWorker ==
    /\ st_main = "join_workers"
    /\ st_i < NumStatWorkers
    /\ st_pc[st_i + 1] = "done"
    /\ st_i' = st_i + 1
    /\ st_main' = IF st_i + 1 = NumStatWorkers THEN "join_monitor"
                  ELSE "join_workers"
    /\ UNCHANGED <<stat_total_processed, in_progress, success_count,
                   error_count, st_pc, st_task, mon_pc>>
    /\ UNCHANGED notSt

\* monitor.join(), then the final statistics are printed.
StJoinMonitor ==
    /\ st_main = "join_monitor"
    /\ mon_pc = "done"
    /\ st_main' = "done"
    /\ UNCHANGED <<stat_total_processed, in_progress, success_count,
                   error_count, st_i, st_pc, st_task, mon_pc>>
    /\ UNCHANGED notSt

StNext ==
    \/ StSpawnWorker
    \/ StSpawnMonitor
    \/ \E w \in StatWorkers : StStartTask(w)
    \/ \E w \in StatWorkers : StCompleteSub(w)
    \/ \E w \in StatWorkers : StCompleteTotal(w)
    \/ \E w \in StatWorkers : StCompleteCount(w)
    \/ MonitorSleep
    \/ MonitorLoad
    \/ StJoinWorker
    \/ StJoinMonitor

\* ========================================================================
\* Specifications
\* ========================================================================

StackNext ==
    \E t \in StackThreads :
        \/ StackCall(t)
        \/ PushAlloc(t)
        \/ PushLoad(t)
        \/ PushLink(t)
        \/ PushCas(t)
        \/ PopLoad(t)
        \/ PopNext(t)
        \/ PopCas(t)
        \/ PopTake(t)

\* The threads of main run their closures.
MainNext ==
    \E t \in MainThreads :
        \/ PushAlloc(t)
        \/ PushLoad(t)
        \/ PushLink(t)
        \/ PushCas(t)
        \/ PopLoad(t)
        \/ PopNext(t)
        \/ PopCas(t)
        \/ PopTake(t)

\* The single thread runs its calls.
SingleNext ==
    \/ PushAlloc(0)
    \/ PushLoad(0)
    \/ PushLink(0)
    \/ PushCas(0)
    \/ PopLoad(0)
    \/ PopNext(0)
    \/ PopCas(0)
    \/ PopTake(0)

PoolNext ==
    \/ \E w \in Workers : PopLocal(w)
    \/ \E w \in Workers : RunLocal(w)
    \/ \E w \in Workers : Steal(w)
    \/ \E w \in Workers : RunStolen(w)
    \/ \E w \in Workers : CheckEmpty(w)
    \/ PoolJoin

\* The state of a program that does not use the thread pool.
TpIdle ==
    /\ tp_queue = <<>>
    /\ tp_sender = 0
    /\ tp_rx_locked = FALSE
    /\ tp_wpc = <<>>
    /\ tp_job = <<>>
    /\ completed_count = 0
    /\ tp_main = "none"
    /\ tp_i = 0
    /\ tp_joined = 0
    /\ tp_runs = <<>>

\* The state of a program that does not call parallel_map_reduce.
MrIdle ==
    /\ mr_data = <<>>
    /\ num_workers = 0
    /\ mr_map_fn = "none"
    /\ mr_reduce_fn = "none"
    /\ chunk_size = 0
    /\ chunks = <<>>
    /\ mr_chan = <<>>
    /\ mr_tx = 0
    /\ mr_main = "none"
    /\ mr_i = 0
    /\ mr_pc = <<>>
    /\ partial_results = <<>>
    /\ partial_result = <<>>
    /\ final_results = <<>>
    /\ mr_result = None
    /\ mr_calls = <<>>

\* The state of a program that does not use the builder.
TbIdle ==
    /\ hardware_threads = 0
    /\ tb_num_threads = None
    /\ tb_stack_size = None
    /\ tb_setters = <<>>
    /\ tb_pool = None

\* The state of a program that does not use the TaskQueue.
WqIdle ==
    /\ wq_tasks = <<>>
    /\ total_completed = 0
    /\ wq_main = "none"
    /\ wq_i = 0
    /\ wq_pc = <<>>
    /\ wq_task = <<>>
    /\ wq_completed = <<>>
    /\ wq_all_stats = <<>>
    /\ wq_processed = <<>>
    /\ wq_shutdowns = <<>>
    /\ wq_saw_empty = FALSE

\* The state of a program without the accounts.
BkIdle ==
    /\ balance = <<>>
    /\ lock_holder = <<>>
    /\ bk_call = <<>>
    /\ bk_pc = <<>>
    /\ bk_main = "none"

\* The state of a program without the scoped-thread computations.
PsIdle ==
    /\ ps_fn = "none"
    /\ ps_data = <<>>
    /\ ps_num_threads = 0
    /\ ps_main = "none"
    /\ ps_i = 0
    /\ ps_pc = <<>>
    /\ ps_ret = <<>>
    /\ ps_result = <<>>

\* The state of a program without the atomic statistics.
StIdle ==
    /\ stat_total_processed = 0
    /\ in_progress = 0
    /\ success_count = 0
    /\ error_count = 0
    /\ st_main = "none"
    /\ st_i = 0
    /\ st_pc = <<>>
    /\ st_task = <<>>
    /\ mon_pc = "none"

\* The state of a program that does not use the stack.
StackIdle ==
    /\ top = NULL
    /\ retry_count = 0
    /\ heap = <<>>
    /\ spc = <<>>
    /\ todo = <<>>
    /\ new_node = <<>>
    /\ current_top = <<>>
    /\ next = <<>>
    /\ rets = <<>>
    /\ pushed = EmptyBag
    /\ loaded_id = <<>>
    /\ crashed = FALSE

\* The state of a program that does not run the deque calls.
DequeIdle ==
    /\ dq_tasks = <<>>
    /\ dq_locked = FALSE
    /\ dpc = <<>>
    /\ dop = <<>>
    /\ dlog = <<>>

\* The state of a program that does not run the producer and consumer.
LogIdle ==
    /\ lchan = <<>>
    /\ ltx = 0
    /\ lppc = "none"
    /\ li = 0
    /\ lcpc = "none"
    /\ llog = None
    /\ processed = 0
    /\ lsent = <<>>
    /\ lreceived = <<>>

\* The state of a program that does not run the three producers.
JobIdle ==
    /\ jchan = <<>>
    /\ jtx = 0
    /\ jmain = "none"
    /\ ji = 0
    /\ jpc = <<>>
    /\ jj = <<>>
    /\ jreceived = <<>>

\* The state of a program that does not run the pipeline.
PipeIdle ==
    /\ bar_count = 0
    /\ bar_gen = 0
    /\ kpc = <<>>
    /\ kgen = <<>>
    /\ items = <<>>
    /\ ksent = <<>>
    /\ phase1_complete = 0
    /\ phase2_complete = 0
    /\ phase3_complete = 0
    /\ total_processed = 0
    /\ kchan = <<>>
    /\ ktx = 0
    /\ kmain = "none"
    /\ kreceived = <<>>
    /\ arrived = {}
    /\ released = {}

\* main of problem_15: only the stack and its threads run.
InitStack == StackInit /\ PoolIdle /\ DequeIdle /\ LogIdle /\ JobIdle /\ PipeIdle /\ TpIdle /\ MrIdle /\ TbIdle /\ WqIdle /\ BkIdle /\ PsIdle /\ StIdle

SpecStack == InitStack /\ [][StackNext]_vars

\* main of problem_15 with its own threads (pushes, then pops).
InitMain == MainInit /\ PoolIdle /\ DequeIdle /\ LogIdle /\ JobIdle /\ PipeIdle /\ TpIdle /\ MrIdle /\ TbIdle /\ WqIdle /\ BkIdle /\ PsIdle /\ StIdle

SpecStackMain == InitMain /\ [][MainNext]_vars

\* LockFreeStack used by one thread.
InitSingle == SingleInit /\ PoolIdle /\ DequeIdle /\ LogIdle /\ JobIdle /\ PipeIdle /\ TpIdle /\ MrIdle /\ TbIdle /\ WqIdle /\ BkIdle /\ PsIdle /\ StIdle

SpecStackSingle == InitSingle /\ [][SingleNext]_vars

\* main of problem_12: only the workers run.
InitPool == PoolInit /\ StackIdle /\ DequeIdle /\ LogIdle /\ JobIdle /\ PipeIdle /\ TpIdle /\ MrIdle /\ TbIdle /\ WqIdle /\ BkIdle /\ PsIdle /\ StIdle

SpecPool == InitPool /\ [][PoolNext]_vars

\* The scheduler does not stop all threads for ever: while some thread can
\* take a step, some thread eventually takes one.
InitPoolAny == PoolInitAny /\ StackIdle /\ DequeIdle /\ LogIdle /\ JobIdle /\ PipeIdle /\ TpIdle /\ MrIdle /\ TbIdle /\ WqIdle /\ BkIdle /\ PsIdle /\ StIdle

SpecPoolFair == InitPoolAny /\ [][PoolNext]_vars /\ WF_vars(PoolNext)

\* One WorkerQueue of problem_12 and its callers.
InitDeque == DequeInit /\ StackIdle /\ PoolIdle /\ LogIdle /\ JobIdle /\ PipeIdle /\ TpIdle /\ MrIdle /\ TbIdle /\ WqIdle /\ BkIdle /\ PsIdle /\ StIdle

SpecDeque == InitDeque /\ [][DequeNext]_vars

\* main of problem_11: producer and consumer run.
InitLog == LogInit /\ StackIdle /\ PoolIdle /\ DequeIdle /\ JobIdle /\ PipeIdle /\ TpIdle /\ MrIdle /\ TbIdle /\ WqIdle /\ BkIdle /\ PsIdle /\ StIdle

SpecLog == InitLog /\ [][LogNext]_vars

\* main of problem_4: the producers and the receive loop run.
InitJob == JobInit /\ StackIdle /\ PoolIdle /\ DequeIdle /\ LogIdle /\ PipeIdle /\ TpIdle /\ MrIdle /\ TbIdle /\ WqIdle /\ BkIdle /\ PsIdle /\ StIdle

SpecJob == InitJob /\ [][JobNext]_vars

\* main of problem_9: the pipeline workers and the receive loop run.
InitPipe == PipeInit /\ StackIdle /\ PoolIdle /\ DequeIdle /\ LogIdle /\ JobIdle /\ TpIdle /\ MrIdle /\ TbIdle /\ WqIdle /\ BkIdle /\ PsIdle /\ StIdle

SpecPipe == InitPipe /\ [][PipeNext]_vars

\* main of problem_4 with and without its drop(tx).
SpecJobDropOrKeep == InitJob /\ [][JobDropOrKeepNext]_vars

\* The scheduler does not stop all threads of the pipeline for ever.
SpecPipeFair == InitPipe /\ [][PipeNext]_vars /\ WF_vars(PipeNext)

\* The pipeline in which one worker may panic inside a phase.
SpecPipePanic == InitPipe /\ [][PipePanicNext]_vars

\* Threads are scheduled fairly: a step that stays possible is taken.
SpecLogFair ==
    /\ SpecLog
    /\ WF_vars(ProducerSend)
    /\ WF_vars(ProducerSleep)
    /\ WF_vars(ProducerDropTx)
    /\ WF_vars(ConsumerRecv)
    /\ WF_vars(ConsumerProcess)

\* main of problem_8: the pool, given jobs that return and jobs that panic.
InitTp == TpInit /\ StackIdle /\ PoolIdle /\ DequeIdle /\ LogIdle /\ JobIdle /\ PipeIdle /\ MrIdle /\ TbIdle /\ WqIdle /\ BkIdle /\ PsIdle /\ StIdle

SpecThreadPool == InitTp /\ [][TpNext]_vars

\* One call of parallel_map_reduce.
InitMr == MrInit /\ StackIdle /\ PoolIdle /\ DequeIdle /\ LogIdle /\ JobIdle /\ PipeIdle /\ TpIdle /\ TbIdle /\ WqIdle /\ BkIdle /\ PsIdle /\ StIdle

SpecMapReduce == InitMr /\ [][MrNext]_vars

\* One ThreadPoolBuilder: setter calls, then build.
InitTb == TbInit /\ StackIdle /\ PoolIdle /\ DequeIdle /\ LogIdle /\ JobIdle /\ PipeIdle /\ TpIdle /\ MrIdle /\ WqIdle /\ BkIdle /\ PsIdle /\ StIdle

SpecBuilder == InitTb /\ [][TbNext]_vars

\* main of problem_10.
InitWq == WqInit /\ StackIdle /\ PoolIdle /\ DequeIdle /\ LogIdle /\ JobIdle /\ PipeIdle /\ TpIdle /\ MrIdle /\ TbIdle /\ BkIdle /\ PsIdle /\ StIdle

SpecTaskQueue == InitWq /\ [][WqNext]_vars

\* main of problem_06, and threads that call transfer_2 under a scheduler
\* that does not stop all of them for ever.
InitBank == BankInit /\ StackIdle /\ PoolIdle /\ DequeIdle /\ LogIdle /\ JobIdle /\ PipeIdle /\ TpIdle /\ MrIdle /\ TbIdle /\ WqIdle /\ PsIdle /\ StIdle

SpecTransfer == InitBank /\ [][BankNext]_vars

InitBank2 == Bank2Init /\ StackIdle /\ PoolIdle /\ DequeIdle /\ LogIdle /\ JobIdle /\ PipeIdle /\ TpIdle /\ MrIdle /\ TbIdle /\ WqIdle /\ PsIdle /\ StIdle

SpecTransfer2Fair == InitBank2 /\ [][Bank2Next]_vars /\ WF_vars(Bank2Next)

\* One call of parallel_sum, parallel_search or parallel_map.
InitPs == PsInit /\ StackIdle /\ PoolIdle /\ DequeIdle /\ LogIdle /\ JobIdle /\ PipeIdle /\ TpIdle /\ MrIdle /\ TbIdle /\ WqIdle /\ BkIdle /\ StIdle

SpecScoped == InitPs /\ [][PsNext]_vars

\* main of problem_7: five workers and the progress monitor.
InitSt == StInit /\ StackIdle /\ PoolIdle /\ DequeIdle /\ LogIdle /\ JobIdle /\ PipeIdle /\ TpIdle /\ MrIdle /\ TbIdle /\ WqIdle /\ BkIdle /\ PsIdle

SpecStats == InitSt /\ [][StNext]_vars

\* ========================================================================
\* Properties of LockFreeStack
\* ========================================================================

\* The values of a sequence of Some(v).
Unwrapped(s) == [i \in 1 .. Len(s) |-> s[i][1]]

\* Values returned by the successful pops of all threads, as a bag.
PoppedValues ==
    LET Cnt[T \in SUBSET StackThreads] ==
            IF T = {} THEN EmptyBag
            ELSE LET t == CHOOSE x \in T : TRUE
                 IN  SeqToBag(Unwrapped(SelectSeq(rets[t], LAMBDA r : r # None))) (+) Cnt[T \ {t}]
    IN  Cnt[StackThreads]

\* The addresses reached from top by following next, at most n of them.
RECURSIVE ChainFrom(_, _)
ChainFrom(a, n) ==
    IF a = NULL \/ n = 0 THEN <<>> ELSE <<a>> \o ChainFrom(heap[a].next, n - 1)

StackChain == ChainFrom(top, MaxCalls + 1)

\* No thread is inside push or pop.
StackQuiescent == ~crashed /\ \A t \in StackThreads : spc[t] = "done"

\* The stack holds exactly the bag of values b: the chain from top ends in
\* null, all its nodes are live, and their values are b.
StackHolds(b) ==
    /\ Len(StackChain) <= MaxCalls
    /\ \A i \in 1 .. Len(StackChain) : heap[StackChain[i]].st = "live"
    /\ SeqToBag([i \in 1 .. Len(StackChain) |-> heap[StackChain[i]].value]) = b

\* C1: every value returned by a successful pop was pushed before, no pushed
\* value is returned by more than one pop, and when no thread is inside an
\* operation the stack holds exactly the values pushed and not yet popped.
C1_StackConservation ==
    /\ PoppedValues \sqsubseteq pushed
    /\ StackQuiescent => StackHolds(pushed (-) PoppedValues)

\* The pop of thread t is at its compare_exchange, the node it loaded has
\* been popped and its address is taken by a newer node, and the successor
\* it read has been popped too.
ABAPending(t) ==
    /\ spc[t] = "pop_cas"
    /\ current_top[t] = top
    /\ heap[current_top[t]].st = "live"
    /\ BagIn(loaded_id[t], pushed)
    /\ heap[current_top[t]].value # loaded_id[t]
    /\ next[t] # NULL
    /\ heap[next[t]].st = "freed"

\* C2: a pop whose loaded node A was popped, with its successor B, and whose
\* address was reused by a later push, does not succeed in its
\* compare_exchange: it never installs the stale pointer B as top.
C2_PopABAProtected ==
    [][\A t \in StackThreads : ABAPending(t) => ~(spc'[t] = "pop_take" /\ top' = next[t])]_vars

\* The chain from top ends in null without visiting an address twice.
ChainAcyclic ==
    /\ Len(StackChain) <= MaxCalls
    /\ \A i, j \in 1 .. Len(StackChain) : i # j => StackChain[i] # StackChain[j]

\* No node of the chain from top has been freed.
ChainLive == \A i \in 1 .. Len(StackChain) : heap[StackChain[i]].st = "live"

\* Thread t's pop hands its node to Box::from_raw and returns.
FreesNode(t) == spc[t] = "pop_take" /\ Len(rets'[t]) = Len(rets[t]) + 1

\* C11: in every reachable state the chain of nodes reachable from top is
\* acyclic and holds no freed node, and no pop frees a node that has been
\* freed already.
C11_ChainLiveFreedOnce ==
    /\ [](ChainAcyclic /\ ChainLive)
    /\ [][\A t \in StackThreads : FreesNode(t) => heap[current_top[t]].st = "live"]_vars

\* Thread t executes the read of (*current_top).next in pop.
ReadsNext(t) == spc[t] = "pop_next" /\ (spc'[t] = "pop_cas" \/ crashed' # crashed)

\* C26: every read of current_top.next in pop, between the load of top and
\* the compare_exchange, is of a node that is allocated and has not been
\* freed by another thread's pop since this thread loaded the pointer.
C26_PopReadsLiveNode ==
    [][\A t \in StackThreads : ReadsNext(t) => heap[current_top[t]].st = "live"]_vars

\* Thread t is inside the loop of push or pop, after its load of top.
AfterLoad(t) == spc[t] \in {"push_link", "push_cas", "pop_next", "pop_cas"}

\* Thread t executes its compare_exchange, successfully / unsuccessfully.
AtCas(t) == spc[t] \in {"push_cas", "pop_cas"}
CasSucceeds(t) == AtCas(t) /\ spc'[t] # spc[t] /\ spc'[t] \notin {"push_load", "pop_load"}
CasFails(t) == AtCas(t) /\ spc'[t] \in {"push_load", "pop_load"}

\* Thread t goes back to the load at the head of its loop.
Retries(t) == spc[t] \notin {"done", "push_alloc", "push_load", "pop_load"}
                  /\ spc'[t] \in {"push_load", "pop_load"}

\* Some step of push or pop is possible for thread t.
CanStep(t) ==
    \/ ENABLED PushAlloc(t)
    \/ ENABLED PushLoad(t)
    \/ ENABLED PushLink(t)
    \/ ENABLED PushCas(t)
    \/ ENABLED PopLoad(t)
    \/ ENABLED PopNext(t)
    \/ ENABLED PopCas(t)
    \/ ENABLED PopTake(t)

\* C13: push and pop never block (while the process runs, a thread inside an
\* operation can always take its next step); a thread repeats its loop only
\* from a failed compare_exchange, counted in retry_count; its load reads
\* top, top changes only by a successful compare_exchange of a thread, and
\* a compare_exchange fails only when top differs from the pointer loaded
\* (so only after another thread's compare_exchange succeeded since the
\* load): whenever an operation has to retry another one has got through,
\* and an operation during which no other thread succeeds does not retry.
C13_LockFree ==
    /\ [](\A t \in StackThreads : (~crashed /\ spc[t] # "done") => CanStep(t))
    /\ [][\A t \in StackThreads :
            /\ Retries(t) => (CasFails(t) /\ retry_count' = retry_count + 1)
            /\ CasFails(t) => top # current_top[t]
            /\ (AtCas(t) /\ spc'[t] # spc[t] /\ top = current_top[t]) => CasSucceeds(t)
            /\ (spc[t] \in {"push_load", "pop_load"} /\ spc'[t] # spc[t])
                  => current_top'[t] = top]_vars
    /\ [][top' # top => \E t \in StackThreads : CasSucceeds(t)]_vars
    /\ [][retry_count' # retry_count => \E t \in StackThreads : CasFails(t)]_vars

\* A thread has retried its loop after the other thread got through, and has
\* then completed its operation.
C13_Witness ==
    /\ retry_count > 0
    /\ ~crashed
    /\ \A t \in StackThreads : spc[t] = "done"
    /\ \E t \in StackThreads : Len(rets[t]) > 0

\* The values of the nodes of the chain from top, top first.
ChainValues == [i \in 1 .. Len(StackChain) |-> heap[StackChain[i]].value]

\* v1, ..., vn as the single thread pushes them, and in reverse.
SingleValues(n) == [k \in 1 .. n |-> ThreadValue(0, k - 1)]
Reversed(s) == [k \in 1 .. Len(s) |-> s[Len(s) + 1 - k]]

\* The single thread has pushed n values and has not called pop yet.
SinglePushed(n) ==
    /\ BagCardinality(pushed) = n
    /\ rets[0] = <<>>
    /\ spc[0] \in {"pop_load", "done"}

\* C14: used by one thread, once v1, ..., vn are pushed the stack holds
\* vn, ..., v1 from the top; the n pops that follow return vn, ..., v1 in
\* that order, the pop after them returns None and leaves the stack empty;
\* no operation retries.
C14_SingleThreadLIFO ==
    /\ retry_count = 0
    /\ ~crashed
    /\ \A n \in 0 .. MaxSingle : SinglePushed(n) => ChainValues = Reversed(SingleValues(n))
    /\ LET n == BagCardinality(pushed) IN
          /\ Len(rets[0]) <= n =>
                rets[0] = [k \in 1 .. Len(rets[0]) |-> Some(ThreadValue(0, n - k))]
          /\ spc[0] = "done" =>
                /\ rets[0] = [k \in 1 .. (n + 1) |->
                                 IF k <= n THEN Some(ThreadValue(0, n - k)) ELSE None]
                /\ is_empty
                /\ \A a \in DOMAIN heap : heap[a].st # "live"

\* The single thread has pushed MaxSingle values, popped them all and got
\* None from the last pop.
C14_Witness ==
    /\ spc[0] = "done"
    /\ BagCardinality(pushed) = MaxSingle
    /\ Len(rets[0]) = MaxSingle + 1
    /\ rets[0][1] = Some(ThreadValue(0, MaxSingle - 1))
    /\ rets[0][MaxSingle + 1] = None

\* Values returned by the successful pops of the threads T, as a bag.
RECURSIVE PoppedBy(_)
PoppedBy(T) ==
    IF T = {} THEN EmptyBag
    ELSE LET t == CHOOSE x \in T : TRUE
         IN  SeqToBag(Unwrapped(SelectSeq(rets[t], LAMBDA r : r # None))) (+) PoppedBy(T \ {t})

\* Values the threads T push, as a bag.
RECURSIVE PushedBy(_)
PushedBy(T) ==
    IF T = {} THEN EmptyBag
    ELSE LET t == CHOOSE x \in T : TRUE
         IN  SeqToBag([k \in 1 .. MaxOps |-> ThreadValue(t, k - 1)]) (+) PushedBy(T \ {t})

\* All threads of main have finished (main's joins have returned).
MainFinished == ~crashed /\ \A t \in MainThreads : spc[t] = "done"

\* C12: no pop of the threads of main returns None, and when all threads
\* have finished each has made MaxOps successful pops, the popped values
\* are exactly the pushed values, and is_empty() is true.
C12_MainPopsAllPushed ==
    /\ \A t \in MainThreads : \A k \in 1 .. Len(rets[t]) : rets[t][k] # None
    /\ MainFinished =>
          /\ \A t \in MainThreads : Len(rets[t]) = MaxOps
          /\ PoppedBy(MainThreads) = PushedBy(MainThreads)
          /\ is_empty

\* ========================================================================
\* Properties of the work-stealing workers
\* ========================================================================

RECURSIVE BagOfDeques(_)
BagOfDeques(W) ==
    IF W = {} THEN EmptyBag
    ELSE LET w == CHOOSE x \in W : TRUE
         IN  SeqToBag(tasks[w]) (+) BagOfDeques(W \ {w})

\* Tasks main placed in the deques.
RECURSIVE BagOfPlaced(_)
BagOfPlaced(W) ==
    IF W = {} THEN EmptyBag
    ELSE LET w == CHOOSE x \in W : TRUE
         IN  SeqToBag(InitialTasks[w]) (+) BagOfPlaced(W \ {w})

\* Tasks a worker has taken and is still processing.
RECURSIVE BagOfHeld(_)
BagOfHeld(W) ==
    IF W = {} THEN EmptyBag
    ELSE LET w == CHOOSE x \in W : TRUE
         IN  (IF wpc[w] \in {"run_local", "run_stolen"} THEN SetToBag({task[w][1]}) ELSE EmptyBag)
             (+) BagOfHeld(W \ {w})

RECURSIVE CompletedBy(_)
CompletedBy(W) ==
    IF W = {} THEN 0
    ELSE LET w == CHOOSE x \in W : TRUE
         IN  local_tasks_completed[w] + stolen_tasks_completed[w] + CompletedBy(W \ {w})

AllExited == \A w \in Workers : wpc[w] = "exited"

\* C3: every task placed in a deque is, at any time, in exactly one place
\* (a deque, the hands of the one worker processing it, or the executed
\* tasks); each execution is counted by one worker; and when all workers
\* have exited every placed task has been executed once and the workers'
\* local + stolen counters add up to the number of tasks placed.
C3_PoolExactlyOnce ==
    /\ BagOfPlaced(Workers) = BagOfDeques(Workers) (+) BagOfHeld(Workers) (+) executed
    /\ CompletedBy(Workers) = BagCardinality(executed)
    /\ AllExited => /\ executed = BagOfPlaced(Workers)
                    /\ CompletedBy(Workers) = MaxSlowTasks + (NumWorkers - 1) * MaxFastTasks

\* All workers have exited and some task was executed by a thief.
C3_Witness ==
    /\ AllExited
    /\ \E w \in Workers : stolen_tasks_completed[w] > 0
    /\ \E w \in Workers : local_tasks_completed[w] > 0

\* The only shutdown signal of the program is the Task::Shutdown poison
\* pill: it has been signalled when a worker was handed one or one is queued.
ShutdownSignalled ==
    \E w \in Workers :
        \/ \E i \in 1 .. Len(tasks[w]) : tasks[w][i].kind = "Shutdown"
        \/ task[w] # None /\ task[w][1].kind = "Shutdown"

AllDequesEmpty == \A q \in Workers : tasks[q] = <<>>

ConcurrentWith(i, j) ==
    /\ i < j
    /\ dlog[j].caller \in dlog[i].pending
    /\ \A k \in (i + 1) .. (j - 1) : dlog[k].caller # dlog[j].caller

\* C9: when a removing call finds exactly one task in the deque it returns
\* that task, every removing call that was pending concurrently with it
\* (the owner's pop_local or a thief's steal) returns None, and no task is
\* returned by two calls.
C9_OneTaskOneWinner ==
    /\ \A i \in 1 .. Len(dlog) :
          Len(dlog[i].before) = 1 =>
              /\ dlog[i].ret = Some(dlog[i].before[1])
              /\ \A j \in 1 .. Len(dlog) : ConcurrentWith(i, j) => dlog[j].ret = None
    /\ \A i, j \in 1 .. Len(dlog) :
          (i # j /\ dlog[i].ret # None) => dlog[i].ret # dlog[j].ret

\* A thief's steal took the only task while the owner's pop_local was
\* pending, and the pop_local has returned.
C9_Witness ==
    \E i, j \in 1 .. Len(dlog) :
        /\ Len(dlog[i].before) = 1
        /\ ConcurrentWith(i, j)
        /\ dlog[i].op = "steal"
        /\ dlog[j].op = "pop_local"

\* Some worker other than worker 0 has completed a stolen task.
OthersStole == \E w \in Workers \ {0} : stolen_tasks_completed[w] > 0

StartsStealing(w) == wpc[w] # "steal" /\ wpc'[w] = "steal"
AttemptsSteal(w) == steal_attempts'[w] # steal_attempts[w]
FinishesStolen(w) == wpc[w] = "run_stolen" /\ wpc'[w] # "run_stolen"

\* C27: a worker enters its victim loop only from a pop_local on its own
\* deque that returned None; every steal attempt is made inside that loop,
\* on a deque other than its own, while its own deque is still empty; and
\* after a stolen task the worker is back at pop_local, so that a further
\* steal attempt again needs a pop_local that returned None.
C27_StealOnlyAfterEmptyPopLocal ==
    /\ [](\A w \in Workers : wpc[w] = "steal" =>
             /\ victim_id[w] \in Workers \ {w}
             /\ tasks[w] = <<>>
             /\ task[w] = None)
    /\ [][\A w \in Workers :
            /\ StartsStealing(w) =>
                  wpc[w] = "pop_local" /\ tasks[w] = <<>> /\ task'[w] = None
            /\ AttemptsSteal(w) =>
                  /\ wpc[w] = "steal"
                  /\ steal_attempts'[w] = steal_attempts[w] + 1
                  /\ tasks'[w] = tasks[w]
                  /\ \A v \in Workers \ {victim_id[w]} : tasks'[v] = tasks[v]
            /\ FinishesStolen(w) =>
                  wpc'[w] = "pop_local" /\ stolen_tasks_completed'[w] = stolen_tasks_completed[w] + 1]_vars

\* A worker has completed two stolen tasks, each after failed attempts.
C27_Witness ==
    \E w \in Workers :
        /\ stolen_tasks_completed[w] >= 2
        /\ failed_steals[w] >= 1
        /\ wpc[w] = "steal"

\* The four counters of worker w.
Counters(w) ==
    <<local_tasks_completed[w], stolen_tasks_completed[w], steal_attempts[w],
      failed_steals[w]>>

\* C37: whenever a worker is at the top of its loop or has exited,
\* steal_attempts = stolen_tasks_completed + failed_steals (inside the loop
\* the attempt whose stolen task is still running is the only one not yet
\* counted on the right), the Stats it returns satisfy the same equation,
\* none of the four counters ever decreases, and steal_attempts leaves 0
\* only in the victim loop, which a worker enters only from a pop_local that
\* found its own deque empty.
C37_StealCountersAddUp ==
    /\ [](\A w \in Workers :
            /\ wpc[w] \in {"pop_local", "exited"} =>
                  steal_attempts[w] = stolen_tasks_completed[w] + failed_steals[w]
            /\ steal_attempts[w] =
                  stolen_tasks_completed[w] + failed_steals[w]
                     + (IF wpc[w] = "run_stolen" THEN 1 ELSE 0))
    /\ [](\A k \in DOMAIN all_stats :
            all_stats[k].steal_attempts =
               all_stats[k].stolen_tasks_completed + all_stats[k].failed_steals)
    /\ [][\A w \in Workers :
            /\ \A c \in 1 .. 4 : Counters(w)'[c] >= Counters(w)[c]
            /\ (steal_attempts[w] = 0 /\ steal_attempts'[w] > 0) =>
                  wpc[w] = "steal" /\ tasks[w] = <<>>
            /\ (steal_attempts[w] = 0 /\ StartsStealing(w)) =>
                  wpc[w] = "pop_local" /\ tasks[w] = <<>>]_vars

\* A worker has exited after stolen tasks and failed attempts, while another
\* worker that has only done local work so far has made no attempt.
C37_Witness ==
    /\ \E w \in Workers :
          /\ wpc[w] = "exited"
          /\ stolen_tasks_completed[w] >= 1
          /\ failed_steals[w] >= 3
          /\ steal_attempts[w] = stolen_tasks_completed[w] + failed_steals[w]
    /\ \E w \in Workers :
          /\ local_tasks_completed[w] >= 1
          /\ wpc[w] = "run_local"
          /\ steal_attempts[w] = 0

\* C28: a worker whose pop_local returned None makes its first steal attempt
\* on worker (worker_id + 1) mod NumWorkers.
C28_FirstVictimIsNextWorker ==
    [][\A w \in Workers :
          StartsStealing(w) => victim_id'[w] = (w + 1) % NumWorkers]_vars

\* main has joined every worker.
AllJoined == Len(all_stats) = NumWorkers

\* C16: the tasks being those main placed before the workers start, every
\* worker eventually leaves its loop under fair scheduling, main's joins all
\* return, and all_stats then holds one Stats record per worker, the record
\* of worker k at position k.
C16_WorkersExitAndJoin ==
    /\ <>AllExited
    /\ <>AllJoined
    /\ [](AllJoined => /\ AllExited
                       /\ \A w \in Workers : all_stats[w + 1] = Stats(w))
    /\ [](Len(all_stats) <= NumWorkers)

\* All four workers are joined, and one of them worked on a stolen task.
C16_Witness ==
    /\ AllJoined
    /\ \E w \in Workers : all_stats[w + 1].stolen_tasks_completed > 0
    /\ \E w \in Workers : all_stats[w + 1].failed_steals > 0

\* The deque as the i-th removing call left it.
DequeAfter(i) == IF i < Len(dlog) THEN dlog[i + 1].before ELSE dq_tasks

\* t1, ..., tk as main pushed them.
PushedTasks(k) == [i \in 1 .. k |-> Compute(i - 1, 50)]

\* C15: the deque holds the tasks in push_local order; on t1, ..., tk
\* pop_local returns tk and leaves t1, ..., t(k-1), steal returns t1 and
\* leaves t2, ..., tk: one task is removed and the others keep their order.
C15_PopBackStealFront ==
    /\ dlog = <<>> => dq_tasks = PushedTasks(Len(dq_tasks))
    /\ \A i \in 1 .. Len(dlog) :
          LET q == dlog[i].before
              k == Len(q) IN
          k > 0 =>
             /\ dlog[i].op = "pop_local" =>
                   /\ dlog[i].ret = Some(q[k])
                   /\ DequeAfter(i) = SubSeq(q, 1, k - 1)
             /\ dlog[i].op = "steal" =>
                   /\ dlog[i].ret = Some(q[1])
                   /\ DequeAfter(i) = SubSeq(q, 2, k)

\* pop_local and steal have both taken a task from the deque of three tasks.
C15_Witness ==
    /\ Len(dlog) >= 2
    /\ dlog[1].before = PushedTasks(MaxDequeLen)
    /\ dlog[1].ret = Some(Compute(MaxDequeLen - 1, 50))
    /\ dlog[2].op = "steal"
    /\ dlog[2].ret = Some(Compute(0, 50))

\* ========================================================================
\* Properties of the thread pool
\* ========================================================================

\* Some worker has run a job that panicked.
JobPanicked == \E w \in PoolWorkers : tp_wpc[w] = "panicked"

\* C18: when a job panics the worker that ran it keeps running (its thread
\* does not end with the panic), and join waits for all workers and returns
\* normally (main does not panic in execute or in join).
C18_PanicLeavesPoolRunning ==
    /\ ~JobPanicked
    /\ tp_main # "panicked"

\* Every worker has left its loop.
AllPoolWorkersExited == \A w \in PoolWorkers : tp_wpc[w] = "exited"

\* C19: no job is run twice; a worker exits only on an
\* empty queue whose sender join has dropped, so the jobs queued at that
\* moment are run first; and when join returns every submitted job has been
\* run once and completed_count is the number of jobs submitted.
C19_JobsRunOnceAndDrained ==
    /\ [](\A j \in JobIds : tp_runs[j] <= 1)
    /\ []((\E w \in PoolWorkers : tp_wpc[w] = "exited") => (tp_queue = <<>> /\ tp_sender = 0))
    /\ [](completed_count <= tp_i)
    /\ [](tp_main = "done" =>
             /\ AllPoolWorkersExited
             /\ tp_i = MaxJobs
             /\ \A j \in JobIds : tp_runs[j] = 1
             /\ completed_count = MaxJobs)

\* join has returned after it dropped the sender with jobs still queued:
\* all jobs were submitted and counted.
C19_Witness ==
    /\ tp_main = "done"
    /\ completed_count = MaxJobs
    /\ tp_queue = <<>>

\* The workers that are inside their recv call.
InRecv == {w \in PoolWorkers : tp_wpc[w] = "recv"}

\* The workers that are executing a job; none once a panic of main has
\* ended the process.
ExecutingJob == {w \in PoolWorkers : ProcessRunning /\ tp_wpc[w] = "run"}

\* C31: the mutex of the receiver is held exactly while one worker is inside
\* its recv call, never by a worker that executes a job; so while a worker
\* executes a job every other worker can take its next step: lock the free
\* mutex, receive a queued job, or execute the job it holds.
C31_LockHeldOnlyDuringRecv ==
    /\ tp_rx_locked <=> (InRecv # {})
    /\ Cardinality(InRecv) <= 1
    /\ \A w \in ExecutingJob : \A u \in PoolWorkers \ {w} :
          /\ (tp_wpc[u] = "lock" /\ InRecv = {}) => ENABLED TpLock(u)
          /\ (tp_wpc[u] = "recv" /\ tp_queue # <<>>) => ENABLED TpRecv(u)
          /\ tp_wpc[u] = "run" => ENABLED TpRun(u)

\* All workers execute a job at the same time, each its own, the mutex free.
C31_Witness ==
    /\ ExecutingJob = PoolWorkers
    /\ \A w, u \in PoolWorkers : w # u => tp_job[w] # tp_job[u]
    /\ ~tp_rx_locked

\* ========================================================================
\* Properties of the bounded producer / consumer
\* ========================================================================

IsPrefix(s, t) == Len(s) <= Len(t) /\ SubSeq(t, 1, Len(s)) = s

\* C5: the entries received so far are a prefix of the entries sent, in the
\* same order, and when the consumer has left its loop it has received the
\* ids 0, 1, ..., NumLogs - 1 in that order.
C5_ReceivedPrefixOfSent ==
    /\ IsPrefix(lreceived, lsent)
    /\ \A k \in 1 .. Len(lreceived) : lreceived[k].id = k - 1
    /\ lcpc = "done" => Len(lreceived) = NumLogs

\* The consumer has left its loop with all entries received.
C5_Witness ==
    /\ lcpc = "done"
    /\ Len(lreceived) = NumLogs
    /\ lreceived[NumLogs].id = NumLogs - 1

\* C6: the buffer never holds more than SyncChannelBound entries (nor fewer
\* than 0), and no send completes in a step that starts with a full buffer.
C6_BufferWithinBound ==
    /\ [](Len(lchan) >= 0 /\ Len(lchan) <= SyncChannelBound)
    /\ [][Len(lchan) = SyncChannelBound => lsent' = lsent]_vars

\* The producer is inside send with the buffer full.
C6_Witness ==
    /\ Len(lchan) = SyncChannelBound
    /\ lppc = "send"
    /\ li < NumLogs

\* C8: recv reports the disconnection only with the buffer empty and no
\* sender left; once the sender is dropped the consumer eventually leaves
\* its loop, and it has then processed every entry sent.
C8_DisconnectedOnlyWhenDrained ==
    /\ [][(lcpc = "recv" /\ lcpc' = "done") => (lchan = <<>> /\ ltx = 0)]_vars
    /\ [](lcpc = "done" => (processed = NumLogs /\ lreceived = lsent))
    /\ ((lppc = "done") ~> (lcpc = "done"))
    /\ <>(lcpc = "done")

\* The sender has been dropped and the consumer has left its loop having
\* processed all entries.
C8_Witness ==
    /\ lcpc = "done"
    /\ ltx = 0
    /\ processed = NumLogs

\* ========================================================================
\* Properties of the three producers on one channel
\* ========================================================================

\* The messages of producer i among the messages of s, in the order of s.
RECURSIVE FromProducer(_, _)
FromProducer(s, i) ==
    IF s = <<>> THEN <<>>
    ELSE IF Head(s)[1] = Prefix(i) THEN <<Head(s)>> \o FromProducer(Tail(s), i)
    ELSE FromProducer(Tail(s), i)

\* What producer i sends, in the order it sends it.
SentBy(i) == [j \in 1 .. NumMessages |-> Message(i, j - 1)]

\* C7: at every moment the messages received from each producer are the
\* first of its messages, in the order it sent them (so none is received
\* twice), and when the receive loop has ended each of the NumProducers *
\* NumMessages messages has been received exactly once.
C7_EachMessageOnceInOrder ==
    /\ \A i \in Producers : IsPrefix(FromProducer(jreceived, i), SentBy(i))
    /\ jmain \in {"join", "done"} =>
          /\ Len(jreceived) = NumProducers * NumMessages
          /\ \A i \in Producers : FromProducer(jreceived, i) = SentBy(i)

\* The receive loop has ended after an interleaved delivery: the first
\* message came from the last producer and the last from the first.
C7_Witness ==
    /\ jmain = "done"
    /\ Len(jreceived) = NumProducers * NumMessages
    /\ jreceived[1] = Message(NumProducers - 1, 0)
    /\ jreceived[Len(jreceived)] = Message(0, NumMessages - 1)

\* Every producer thread has finished and dropped its clone of tx.
ProducersGone == \A i \in Producers : jpc[i] = "done"

\* The receive loop ends in this step.
ReceiveLoopEnds == jmain = "recv" /\ jmain' # "recv"

\* C30: the receive loop ends only when every Sender handle is dropped, the
\* original one of main included, and the queue is empty; while a handle
\* exists recv on the empty queue blocks; so when main keeps its handle the
\* loop is still waiting after all producers have finished, for ever.
C30_LoopEndsOnlyWithoutSenders ==
    /\ [][ReceiveLoopEnds => (jtx = 0 /\ jchan = <<>> /\ ProducersGone)]_vars
    /\ [](jmain \in {"join", "done"} => jtx = 0)
    /\ []((jmain = "recv" /\ jchan = <<>> /\ jtx > 0) => ~ENABLED JobRecv)
    /\ [][(jmain = "recv" /\ ProducersGone /\ jtx > 0) => (jmain' = "recv" /\ jtx' = jtx)]_vars

\* main kept its handle: all producers are gone, all their messages are
\* received, and the loop waits in recv with nothing left that could move.
C30_Witness ==
    /\ jmain = "recv"
    /\ ProducersGone
    /\ jtx = 1
    /\ jchan = <<>>
    /\ Len(jreceived) = NumProducers * NumMessages
    /\ ~ENABLED JobDropOrKeepNext

\* ========================================================================
\* Properties of the barrier pipeline
\* ========================================================================

\* The phase a worker is executing (0: it is at a barrier or has finished).
Executing(w) ==
    IF kpc[w] = "phase1" THEN 1
    ELSE IF kpc[w] = "phase2" THEN 2
    ELSE IF kpc[w] \in {"phase3", "phase3_count"} THEN 3
    ELSE 0

\* The number of phases a worker has finished.
Finished(w) ==
    IF kpc[w] = "phase1" THEN 0
    ELSE IF kpc[w] \in {"wait1", "blocked1", "phase2"} THEN 1
    ELSE IF kpc[w] \in {"wait2", "blocked2", "phase3", "phase3_count"} THEN 2
    ELSE 3

ArrivedIn(g) == {w \in PipeWorkers : <<g, w>> \in arrived}
ReleasedFrom(g) == {w \in PipeWorkers : <<g, w>> \in released}
Generations == {p[1] : p \in arrived \cup released}

\* C4: a worker executes phase k + 1 only when all workers have finished
\* phase k, phase1_complete (phase2_complete) is NumPipeWorkers whenever a
\* worker executes phase 2 (phase 3), and a barrier generation releases only
\* workers that arrived in it, and only once all NumPipeWorkers have arrived;
\* when all workers are done every generation has released exactly its
\* NumPipeWorkers arrivals.
C4_PhasesSeparatedByBarrier ==
    /\ \A w, u \in PipeWorkers : Executing(w) >= 2 => Finished(u) >= Executing(w) - 1
    /\ (\E w \in PipeWorkers : Executing(w) = 2) => phase1_complete = NumPipeWorkers
    /\ (\E w \in PipeWorkers : Executing(w) = 3) => phase2_complete = NumPipeWorkers
    /\ \A g \in Generations :
          /\ ReleasedFrom(g) \subseteq ArrivedIn(g)
          /\ ReleasedFrom(g) # {} => ArrivedIn(g) = PipeWorkers
    /\ (\A w \in PipeWorkers : kpc[w] = "done") =>
          /\ Generations = 0 .. 2
          /\ \A g \in Generations : ReleasedFrom(g) = PipeWorkers

\* A worker executes phase 3 while another has not yet returned from the
\* wait that ended phase 2.
C4_Witness ==
    \E w, u \in PipeWorkers :
        /\ kpc[w] = "phase3"
        /\ kpc[u] = "blocked2"
        /\ phase2_complete = NumPipeWorkers
        /\ ReleasedFrom(1) # {}
        /\ ReleasedFrom(1) # PipeWorkers

\* The items of the workers W, as a bag.
RECURSIVE AllItems(_)
AllItems(W) ==
    IF W = {} THEN EmptyBag
    ELSE LET w == CHOOSE x \in W : TRUE IN SeqToBag(items[w]) (+) AllItems(W \ {w})

\* C20: every item the driver receives has processed_value =
\* Some(2 * raw_value); when its receive loop has ended it has received
\* every item of every worker once, MaxItems from each of the 4 workers, and
\* total_processed is the number of items, 4 * MaxItems.
C20_DriverReceivesAllDoubled ==
    /\ \A k \in 1 .. Len(kreceived) :
          kreceived[k].processed_value = Some(2 * kreceived[k].raw_value)
    /\ Len(kreceived) <= NumPipeWorkers * MaxItems
    /\ kmain \in {"join", "done"} =>
          /\ Len(kreceived) = NumPipeWorkers * MaxItems
          /\ \A w \in PipeWorkers : Len(items[w]) = MaxItems /\ ksent[w] = MaxItems
          /\ SeqToBag(kreceived) = AllItems(PipeWorkers)
          /\ total_processed = NumPipeWorkers * MaxItems
          /\ kchan = <<>>

\* The driver has finished with all items received, among them one made
\* from the largest and one from the smallest raw value.
C20_Witness ==
    /\ kmain = "done"
    /\ Len(kreceived) = NumPipeWorkers * MaxItems
    /\ \E k \in 1 .. Len(kreceived) : kreceived[k].processed_value = Some(198)
    /\ \E k \in 1 .. Len(kreceived) : kreceived[k].processed_value = Some(2)

\* main has joined all workers.
PipeDone == kmain = "done"

\* C21: no phase panicking, the pipeline terminates under fair scheduling:
\* no reachable state short of the end is a deadlock, and main eventually
\* returns from its joins, with every worker released from each of the three
\* barrier generations and exited, every sender dropped and the queue
\* drained.
C21_PipelineTerminates ==
    /\ <>PipeDone
    /\ [](~PipeDone => ENABLED PipeNext)
    /\ [](PipeDone =>
             /\ \A w \in PipeWorkers : kpc[w] = "done"
             /\ \A g \in 0 .. 2 : ReleasedFrom(g) = PipeWorkers
             /\ bar_gen = 3
             /\ ktx = 0
             /\ kchan = <<>>)

\* The pipeline has ended: three generations of the barrier have passed, the
\* workers are gone and so are the senders.
C21_Witness ==
    /\ PipeDone
    /\ \A w \in PipeWorkers : kpc[w] = "done"
    /\ ktx = 0
    /\ bar_gen = 3

\* The worker that panicked, and the generation of the wait it never called.
Panicked == {w \in PipeWorkers : kpc[w] = "panicked"}
MissedGeneration(w) == Cardinality({g \in 0 .. 2 : <<g, w>> \in arrived})

\* C22: once a worker has panicked before a wait, no worker returns from
\* the wait of that generation, no other worker reaches its end (each keeps
\* its sender), and main's receive loop does not end.
C22_PanicDeadlocks ==
    \A p \in Panicked :
        /\ ReleasedFrom(MissedGeneration(p)) = {}
        /\ bar_gen <= MissedGeneration(p)
        /\ \A w \in PipeWorkers \ {p} : kpc[w] \notin {"exit", "done"}
        /\ ktx >= NumPipeWorkers - 1
        /\ kmain \notin {"join", "done"}

\* A worker panicked in phase 2; the three others are blocked in the second
\* wait, main has received nothing and waits in recv: nothing can move.
C22_Witness ==
    /\ \E p \in Panicked : MissedGeneration(p) = 1
    /\ \A w \in PipeWorkers \ Panicked : kpc[w] = "blocked2"
    /\ kmain = "recv"
    /\ kchan = <<>>
    /\ ~ENABLED PipePanicNext


\* ========================================================================
\* Properties of parallel_map_reduce
\* ========================================================================

\* map_fn applied to every element of data, in order.
MappedData == [k \in 1 .. Len(mr_data) |-> map_fn(mr_map_fn, mr_data[k])]

\* reduce_fn applied from left to right to the first n elements of s.
RECURSIVE SequentialReduce(_, _, _)
SequentialReduce(f, s, n) ==
    IF n = 1 THEN s[1] ELSE reduce_fn(f, SequentialReduce(f, s, n - 1), s[n])

\* reduce_fn is associative and commutative.
AssocCommutative == mr_reduce_fn \in {"add", "mul"}

\* C23: for a non-empty input, num_workers >= 1 and an associative and
\* commutative reduce_fn, no element is ever mapped twice, and when the
\* function returns every element has been mapped exactly once and the
\* result is the sequential reduce of the mapped elements, whatever the
\* interleaving: 204 for the squares of 1..8 on 4 workers with +, 120 for
\* 1..5 on 2 workers with *.
C23_MapOnceEqualsSequential ==
    /\ \A k \in DOMAIN mr_calls : mr_calls[k] <= 1
    /\ (mr_main = "done" /\ AssocCommutative) =>
          /\ \A k \in DOMAIN mr_calls : mr_calls[k] = 1
          /\ mr_result = SequentialReduce(mr_reduce_fn, MappedData, Len(mr_data))
          /\ (mr_data = <<1, 2, 3, 4, 5, 6, 7, 8>> /\ mr_map_fn = "square")
                => mr_result = 204
          /\ (mr_data = <<1, 2, 3, 4, 5>> /\ mr_map_fn = "identity")
                => mr_result = 120

\* The sum of squares has returned 204 from partial results that arrived
\* out of chunk order.
C23_Witness ==
    /\ mr_main = "done"
    /\ mr_data = <<1, 2, 3, 4, 5, 6, 7, 8>>
    /\ num_workers = 4
    /\ final_results = <<113, 25, 5, 61>>
    /\ mr_result = 204

\* The call of test 3.
SentenceCall ==
    /\ mr_map_fn = "to_uppercase"
    /\ mr_reduce_fn = "format"
    /\ num_workers = 2
    /\ Len(mr_data) = 4

\* C25: the partial results are combined in chunk order, so the call of
\* test 3 returns "HELLO PARALLEL MAP REDUCE" in every interleaving.
C25_SentenceInChunkOrder ==
    /\ (SentenceCall /\ mr_main \in {"reduce", "done"}) =>
          final_results = << <<"HELLO", "PARALLEL">>, <<"MAP", "REDUCE">> >>
    /\ (SentenceCall /\ mr_main = "done") =>
          mr_result = <<"HELLO", "PARALLEL", "MAP", "REDUCE">>


\* ========================================================================
\* Properties of ThreadPoolBuilder
\* ========================================================================

\* The values given to the calls of one setter, in order.
SetterValues(name) ==
    SelectSeq(tb_setters, LAMBDA call : call[1] = name)

\* The value of the last call of the setter, or the default without a call.
LastOr(name, default) ==
    IF SetterValues(name) = <<>> THEN default
    ELSE SetterValues(name)[Len(SetterValues(name))][2]

\* C24: build passes the hardware thread count as the number of workers
\* when num_threads was never called and 2 MiB when stack_size was never
\* called; otherwise the value of the last call of the setter, unchanged.
C24_BuildDefaultsAndLastSetter ==
    tb_pool # None =>
        /\ tb_pool.num_threads = LastOr("num_threads", hardware_threads)
        /\ tb_pool.stack_size = LastOr("stack_size", 2 * 1024 * 1024)


\* ========================================================================
\* Properties of the worker pool on a shared TaskQueue
\* ========================================================================

\* The sum of tasks_completed over the first n entries of all_stats.
RECURSIVE StatsSum(_)
StatsSum(n) ==
    IF n = 0 THEN 0 ELSE StatsSum(n - 1) + wq_all_stats[n].tasks_completed

\* The queue holds no Process task behind a Shutdown task.
ShutdownsLast ==
    \A a, b \in DOMAIN wq_tasks :
        (a < b /\ wq_tasks[a].kind = "Shutdown") => wq_tasks[b].kind = "Shutdown"

\* C29: with the Shutdown tasks added after the Process tasks on the FIFO
\* queue, no Process task is processed twice and none is left behind a
\* Shutdown, a worker leaves its loop exactly when it was handed its one
\* Shutdown, and when main has joined the workers every worker consumed one
\* Shutdown, every Process task was processed once, the queue is empty and
\* total_completed = the sum of tasks_completed = the number of Process
\* tasks, whether or not workers polled the queue while it was empty.
C29_PoisonPillsDrainQueue ==
    /\ ShutdownsLast
    /\ \A i \in ProcessIds : wq_processed[i] <= 1
    /\ \A w \in QueueWorkers :
          /\ wq_shutdowns[w] <= 1
          /\ (wq_pc[w] \in {"exit", "done"}) <=> (wq_shutdowns[w] = 1)
    /\ wq_main = "done" =>
          /\ \A w \in QueueWorkers : wq_pc[w] = "done" /\ wq_shutdowns[w] = 1
          /\ \A i \in ProcessIds : wq_processed[i] = 1
          /\ wq_tasks = <<>>
          /\ total_completed = MaxProcessTasks
          /\ Len(wq_all_stats) = NumQueueWorkers
          /\ StatsSum(NumQueueWorkers) = MaxProcessTasks
          /\ \A w \in QueueWorkers :
                wq_all_stats[w + 1] = [worker_id |-> w, tasks_completed |-> wq_completed[w]]

\* The run has ended with all tasks counted although a worker had found the
\* queue empty before the Shutdown tasks were there, and with the work
\* spread unevenly over the workers.
C29_Witness ==
    /\ wq_main = "done"
    /\ wq_saw_empty
    /\ total_completed = MaxProcessTasks
    /\ wq_completed[0] = 0
    /\ wq_completed[3] >= 2


\* ========================================================================
\* Properties of the bank transfers
\* ========================================================================

\* Thread t holds the lock of account a.
Holds(t, a) == lock_holder[a] = Some(t)

\* Two threads run transfer in opposite directions and each has locked its
\* from account.
OppositeTransfersLocked ==
    /\ bk_call[1].from = bk_call[2].to
    /\ bk_call[1].to = bk_call[2].from
    /\ bk_pc[1] = "lock_to"
    /\ bk_pc[2] = "lock_to"

\* C32: with transfer(A, B) in one thread and transfer(B, A) in the other,
\* once each thread has locked its from account each waits for the lock the
\* other holds, no thread and not main can take any step (so the state lasts
\* for ever), and no balance has changed.
C32_OppositeTransfersDeadlock ==
    OppositeTransfersLocked =>
        /\ \A t \in {1, 2} :
              /\ Holds(t, bk_call[t].from)
              /\ Holds(3 - t, bk_call[t].to)
              /\ ~ENABLED TransferLockTo(t)
        /\ ~ENABLED BankNext
        /\ bk_main = "join"
        /\ \A a \in AccountIds : balance[a] = InitialBalance

\* main's two calls, transfer(A, B, 100) and transfer(B, A, 50), deadlocked.
C32_Witness ==
    /\ OppositeTransfersLocked
    /\ bk_call[1] = [from |-> 1, to |-> 2, amount |-> 100]
    /\ bk_call[2] = [from |-> 2, to |-> 1, amount |-> 50]
    /\ Holds(1, 1)
    /\ Holds(2, 2)
    /\ ~ENABLED BankNext

\* All calls have returned.
AllTransfersDone == \A t \in DOMAIN bk_pc : bk_pc[t] = "done"

\* What the calls that have returned moved into account a, net.
RECURSIVE NetMoved(_, _)
NetMoved(a, n) ==
    IF n = 0 THEN 0
    ELSE NetMoved(a, n - 1)
         + (IF bk_pc[n] # "done" THEN 0
            ELSE IF bk_call[n].to = a THEN bk_call[n].amount
            ELSE 0 - bk_call[n].amount)

\* C33: with transfer_2 no reachable state is a deadlock, every call
\* eventually returns (and main's joins with it), every call moves its amount
\* from its from account to its to account whichever lock it took first, and
\* the sum of the two balances never changes.
C33_LockOrderingNoDeadlock ==
    /\ [](~(AllTransfersDone /\ bk_main = "done") => ENABLED Bank2Next)
    /\ <>(AllTransfersDone /\ bk_main = "done")
    /\ [](balance[1] + balance[2] = 2 * InitialBalance)
    /\ [](\A a \in AccountIds :
            (\A t \in DOMAIN bk_pc : ~Holds(t, a)) =>
                balance[a] = InitialBalance + NetMoved(a, Len(bk_call)))
    /\ [](\A t \in DOMAIN bk_pc : \A u \in DOMAIN bk_pc :
            (t # u /\ bk_pc[t] = "lock_second") => bk_pc[u] \notin {"lock_second", "move_2"})

\* Calls in both directions have returned: account 1 was the from account of
\* one and the to account of another, and the balances show both.
C33_Witness ==
    /\ AllTransfersDone
    /\ bk_main = "done"
    /\ bk_call[1] = [from |-> 1, to |-> 2, amount |-> 100]
    /\ bk_call[2] = [from |-> 2, to |-> 1, amount |-> 50]
    /\ balance = (1 :> 950 @@ 2 :> 1050)


\* ========================================================================
\* Properties of the scoped-thread computations
\* ========================================================================

\* The sum of the first n elements of s.
RECURSIVE SumOfFirst(_, _)
SumOfFirst(s, n) == IF n = 0 THEN 0 ELSE SumOfFirst(s, n - 1) + s[n]

\* The elements of s that are at least 18, in the order of s.
RECURSIVE AdultsOfFirst(_, _)
AdultsOfFirst(s, n) ==
    IF n = 0 THEN <<>>
    ELSE IF s[n] >= 18 THEN Append(AdultsOfFirst(s, n - 1), s[n])
    ELSE AdultsOfFirst(s, n - 1)

\* C34: for a non-empty input and num_threads >= 1, whatever the order in
\* which the threads finish, parallel_search returns the elements that
\* satisfy the predicate in input order, parallel_map returns func of every
\* element in input order, and parallel_sum returns the sum of the elements;
\* for main's calls these are the outputs main expects.
C34_ScopedResultsInInputOrder ==
    ps_main = "done" =>
        /\ ps_fn = "parallel_sum" => ps_result = SumOfFirst(ps_data, Len(ps_data))
        /\ ps_fn = "parallel_search" => ps_result = AdultsOfFirst(ps_data, Len(ps_data))
        /\ ps_fn = "parallel_map" =>
              /\ Len(ps_result) = Len(ps_data)
              /\ \A k \in DOMAIN ps_data : ps_result[k] = to_uppercase(ps_data[k])
        /\ (ps_fn = "parallel_sum" /\ Len(ps_data) = 10) => ps_result = 55
        /\ (ps_fn = "parallel_search" /\ Len(ps_data) = 9) =>
              ps_result = <<22, 18, 35, 42, 19, 50, 28, 33>>
        /\ (ps_fn = "parallel_map" /\ Len(ps_data) = 4
                                   /\ ps_data[2] = "parallel") =>
              ps_result = <<"RUST", "PARALLEL", "SCOPED", "THREADS">>

\* main's search has returned its expected output from three chunks.
C34_Witness ==
    /\ ps_main = "done"
    /\ ps_fn = "parallel_search"
    /\ ps_num_threads = 3
    /\ Len(ps_pc) = 3
    /\ ps_ret[1] = Some(<<22, 18>>)
    /\ ps_result = <<22, 18, 35, 42, 19, 50, 28, 33>>


\* ========================================================================
\* Properties of the atomic statistics (problem_7)
\* ========================================================================

\* The number of tasks of all workers together (500 in main).
TotalTasks == NumStatWorkers * MaxStatTasks

AllWorkersFinished == \A w \in StatWorkers : st_pc[w] = "done"

\* C35: in every reachable state in_progress is at most the number of
\* workers and success_count + error_count <= total_processed <= the number
\* of all tasks; once all workers have finished, total_processed equals the
\* number of all tasks and equals success_count + error_count, and
\* in_progress is 0.
C35_StatisticsBounds ==
    /\ in_progress <= NumStatWorkers
    /\ success_count + error_count <= stat_total_processed
    /\ stat_total_processed <= TotalTasks
    /\ AllWorkersFinished =>
          /\ stat_total_processed = TotalTasks
          /\ success_count + error_count = TotalTasks
          /\ in_progress = 0

\* All workers have finished and main has printed the final statistics, with
\* tasks of both outcomes.
C35_Witness ==
    /\ st_main = "done"
    /\ AllWorkersFinished
    /\ stat_total_processed = TotalTasks
    /\ success_count > 0
    /\ error_count > 0

\* C36: the monitor thread leaves its loop only after every worker has
\* completed all of its tasks.
C36_MonitorLeavesAfterWorkers ==
    mon_pc = "done" => AllWorkersFinished

====
